---- MODULE Spec2Model ----
(***************************************************************************)
(* Model of the knowledge-graph store (KnowledgeGraphService), its domain  *)
(* model (models/Graph.ts) and the snapshot side of FileService.           *)
(*                                                                         *)
(* The registry is the service's Map<string, Graph>, kept as a sequence in *)
(* insertion order.  Every action is one public method of the service,     *)
(* from its call to ensureInitialized to its final persistChanges.  I/O    *)
(* failures of the file system are inputs of the actions (Faults).         *)
(***************************************************************************)
EXTENDS Integers, Sequences, FiniteSets, TLC

\* ------------------------------------------------------------------ bounds
\* the store specifications (Spec, SpecFaults, SpecKinds, SpecPersist)
MaxIds == 3          \* randomUUID() is called at most MaxIds times
MaxGraphs == 1       \* graphs in the registry
MaxNodes == 1        \* nodes per graph
MaxEdges == 1        \* edges per graph
MaxResources == 2    \* resources per graph
MaxClock == 1        \* the millisecond clock runs from 0 to MaxClock
MaxFiles == 1        \* files stored under resources/
MaxFaults == 2       \* calls during which the file system fails
MaxInFlight == 2     \* calls suspended in fs.writeFile at the same time
MaxLog == 1          \* entries of md/error_log.txt
\* the node and edge specifications (SpecGraph, SpecRoot)
GraphMaxIds == 5
GraphMaxGraphs == 2
GraphMaxNodes == 2
GraphMaxEdges == 2

\* the resource specification (SpecResources)
ResMaxIds == 3
ResMaxNodes == 1
ResMaxResources == 2
ResMaxFiles == 2

\* --------------------------------------------------------------- encodings
Undef == "undefined"     \* an absent optional string field
NoDate == -1             \* an absent optional Date field
NoId == 0                \* an absent optional id field
InvalidDate == -2        \* new Date(undefined), a Date without a time value
ResIdBase == 100         \* `res_${Date.now()}` is kept as ResIdBase + now

\* ------------------------------------------------------------ enumerations
GraphStatus == {"draft", "published", "archived"}

GraphType ==
  {"topology", "timeline", "changelog", "requirement", "knowledge_base", "ontology"}

NodeType ==
  {"component", "module", "service", "data", "api", "concept", "resource",
   "event", "change", "requirement", "feature", "iteration", "decision", "person"}

EdgeType ==
  {"depends_on", "imports", "extends", "implements", "calls", "references",
   "contains", "associated_with", "precedes", "transforms_to", "leads_to",
   "implements_req", "created_by", "modified_by", "part_of"}

\* --------------------------------------------------------------- variables
VARIABLES
  graphs,       \* this.graphs, in insertion order
  initialized,  \* this.initialized
  config,       \* fileService present, generateSvg, autoPersist
  disk,         \* graph.json as written by updateGraphFile, and the files
                \* stored under resources/
  now,          \* the clock read by new Date() and Date.now()
  nextId,       \* the next value randomUUID() returns
  ioFailures,   \* calls so far during which the file system failed
  inFlight,     \* what the calls suspended in fs.writeFile are writing, or
                \* what the calls suspended in fs.readFile have read
  errorLog,     \* the number of entries of md/error_log.txt
  wasArchived   \* history: the ids of the graphs seen archived in the registry

vars ==
  <<graphs, initialized, config, disk, now, nextId, ioFailures, inFlight,
    errorLog, wasArchived>>

\* ----------------------------------------------------------- list helpers
\* Array.prototype.findIndex
RECURSIVE FindIndexFrom(_, _, _)
FindIndexFrom(s, P(_), i) ==
  IF i > Len(s) THEN 0
  ELSE IF P(s[i]) THEN i
  ELSE FindIndexFrom(s, P, i + 1)

FindIndex(s, P(_)) == FindIndexFrom(s, P, 1)

\* Array.prototype.some
Some(s, P(_)) == \E i \in 1..Len(s) : P(s[i])

\* Array.prototype.splice(i): everything from i on is removed
Splice_ToEnd(s, i) == SubSeq(s, 1, i - 1)

\* Array.prototype.splice(i, 1)
Splice(s, i) == SubSeq(s, 1, i - 1) \o SubSeq(s, i + 1, Len(s))

\* s[i] = x
SetAt(s, i, x) == [s EXCEPT ![i] = x]

\* the elements of an array
Range(s) == {s[k] : k \in DOMAIN s}

\* Map.get / Map.set / Map.delete on the registry
GraphIndex(gs, id) == FindIndex(gs, LAMBDA g : g.id = id)

MapSet(gs, g) ==
  IF GraphIndex(gs, g.id) = 0 THEN Append(gs, g)
  ELSE SetAt(gs, GraphIndex(gs, g.id), g)

MapDelete(gs, id) == SelectSeq(gs, LAMBDA g : g.id # id)

\* ------------------------------------------------------------ domain model
\* GraphModel.create
Create(id, name, type, description, t) ==
  [id |-> id, name |-> name, description |-> description, type |-> type,
   status |-> "draft", rootNodeId |-> NoId,
   nodes |-> <<>>, edges |-> <<>>, resources |-> <<>>,
   createdAt |-> t, updatedAt |-> t, publishedAt |-> NoDate, archivedAt |-> NoDate]

\* GraphModel.createNode
CreateNode(id, type, name, description, filePath, metadata, t) ==
  [id |-> id, type |-> type, name |-> name, description |-> description,
   filePath |-> filePath, metadata |-> metadata,
   createdAt |-> t, updatedAt |-> t, resources |-> <<>>]

\* GraphModel.createEdge
CreateEdge(id, type, source, target, label, weight, metadata, t) ==
  [id |-> id, type |-> type, source |-> source, target |-> target,
   label |-> label, weight |-> weight, metadata |-> metadata,
   createdAt |-> t, updatedAt |-> t]

\* GraphModel.createResource (title is not set by it)
CreateResource(id, name, type, path, description, t) ==
  [id |-> id, name |-> name, type |-> type, path |-> path, title |-> Undef,
   description |-> description, createdAt |-> t, updatedAt |-> t]

\* validateNodeTypeForGraphType with a requirement case that misses DECISION
NodeTypeAllowed_NoDecision(graphType, nodeType) ==
  CASE graphType = "topology" ->
         nodeType \in {"component", "module", "service", "data", "api",
                       "resource", "concept"}
    [] graphType = "timeline" ->
         nodeType \in {"event", "decision", "iteration", "person"}
    [] graphType = "changelog" ->
         nodeType \in {"change", "feature", "component", "iteration", "person"}
    [] graphType = "requirement" ->
         nodeType \in {"requirement", "feature", "component", "iteration",
                       "person"}
    [] graphType = "knowledge_base" -> TRUE
    [] graphType = "ontology" ->
         nodeType \in {"concept", "resource", "data"}
    [] OTHER -> TRUE

\* validateNodeTypeForGraphType: TRUE when the switch does not throw
NodeTypeAllowed(graphType, nodeType) ==
  CASE graphType = "topology" ->
         nodeType \in {"component", "module", "service", "data", "api",
                       "resource", "concept"}
    [] graphType = "timeline" ->
         nodeType \in {"event", "decision", "iteration", "person"}
    [] graphType = "changelog" ->
         nodeType \in {"change", "feature", "component", "iteration", "person"}
    [] graphType = "requirement" ->
         nodeType \in {"requirement", "feature", "component", "iteration",
                       "person", "decision"}
    [] graphType = "knowledge_base" -> TRUE
    [] graphType = "ontology" ->
         nodeType \in {"concept", "resource", "data"}
    [] OTHER -> TRUE

\* validateEdgeTypeForGraphType with a changelog case that misses PART_OF
EdgeTypeAllowed_NoPartOf(graphType, edgeType) ==
  CASE graphType = "topology" ->
         edgeType \in {"depends_on", "imports", "extends", "implements",
                       "calls", "references", "contains", "associated_with"}
    [] graphType = "timeline" ->
         edgeType \in {"precedes", "leads_to", "created_by", "modified_by"}
    [] graphType = "changelog" ->
         edgeType \in {"precedes", "transforms_to", "created_by",
                       "modified_by"}
    [] graphType = "requirement" ->
         edgeType \in {"implements_req", "depends_on", "part_of",
                       "created_by", "modified_by"}
    [] graphType = "knowledge_base" -> TRUE
    [] graphType = "ontology" ->
         edgeType \in {"extends", "contains", "part_of", "associated_with"}
    [] OTHER -> TRUE

\* validateEdgeTypeForGraphType: TRUE when the switch does not throw
EdgeTypeAllowed(graphType, edgeType) ==
  CASE graphType = "topology" ->
         edgeType \in {"depends_on", "imports", "extends", "implements",
                       "calls", "references", "contains", "associated_with"}
    [] graphType = "timeline" ->
         edgeType \in {"precedes", "leads_to", "created_by", "modified_by"}
    [] graphType = "changelog" ->
         edgeType \in {"precedes", "transforms_to", "created_by",
                       "modified_by", "part_of"}
    [] graphType = "requirement" ->
         edgeType \in {"implements_req", "depends_on", "part_of",
                       "created_by", "modified_by"}
    [] graphType = "knowledge_base" -> TRUE
    [] graphType = "ontology" ->
         edgeType \in {"extends", "contains", "part_of", "associated_with"}
    [] OTHER -> TRUE

\* ------------------------------------------------------------------ faults
\* What the file system does during one call:
\*   init      FileService.init() succeeds (it throws otherwise)
\*   load      FileService.loadGraphs() succeeds (reloadData swallows a throw)
\*   write     "ok": graph.json and the Markdown documents are written;
\*             "fail": writeJsonFile throws; "docFail": graph.json is written
\*             and updateMarkdownDoc throws on a published graph
\*   artifact  saveResource / saveSvg / saveMd succeeds
Faults ==
  [init : BOOLEAN, load : BOOLEAN, write : {"ok", "fail", "docFail"},
   artifact : BOOLEAN]

NoFaults == [init |-> TRUE, load |-> TRUE, write |-> "ok", artifact |-> TRUE]

\* ----------------------------------------------------------- call outcomes
\* The result of one call: the registry and the snapshot it leaves, the
\* initialized flag, the number of randomUUID() calls, and "ok" or the kind
\* of the error thrown.  The kinds name the throw sites:
\*   NotFound               '... 不存在'
\*   TypeMismatch           '节点类型/边类型 ... 不适用于 ...', '无效的图谱类型'
\*   DuplicateName          '节点名称/资源名称 ... 已存在'
\*   DuplicateRelationship  '从 .. 到 .. 的 .. 类型边已存在'
\*   ImmutableState         '已归档的知识图谱不能 ...', '不能删除根节点'
\*   InvalidInput           'name必须提供 ...', '无效的SVG内容'
\*   AlreadyLinked          '资源 .. 已关联到节点 ..'
\*   NotLinked              '资源 .. 未关联到节点 ..'
\*   NoFileService          '文件服务未配置 ...', '... 文件服务未初始化'
\*   PersistenceFailure     an error of the file system
Outcome(gs, result, dsk, inited, ids) ==
  [graphs |-> gs, result |-> result, disk |-> dsk, initialized |-> inited,
   ids |-> ids]

\* ------------------------------------------------------------ graph.json
\* Date.prototype.toJSON: the ISO string of a time value
ToISOString(t) == ToString(t)

\* new Date(value) on a field read from graph.json: the time the string
\* denotes, Invalid Date for an absent field
NewDate(value) ==
  IF value = Undef THEN InvalidDate
  ELSE CHOOSE t \in 0..MaxClock : ToISOString(t) = value

\* JSON.stringify of a Date field: an undefined field leaves no key
StringifyDate(d) == IF d = NoDate THEN Undef ELSE ToISOString(d)

\* JSON.stringify of the nodes, the edges or the resources of a graph
StringifyItems(items) ==
  [k \in 1..Len(items) |->
     [items[k] EXCEPT !.createdAt = StringifyDate(@),
                      !.updatedAt = StringifyDate(@)]]

\* JSON.stringify of the array of graphs (writeJsonFile); strings, numbers
\* and arrays are written as they are
Stringify(gs) ==
  [k \in 1..Len(gs) |->
     [gs[k] EXCEPT !.createdAt = StringifyDate(@),
                   !.updatedAt = StringifyDate(@),
                   !.publishedAt = StringifyDate(@),
                   !.archivedAt = StringifyDate(@),
                   !.nodes = StringifyItems(@),
                   !.edges = StringifyItems(@),
                   !.resources = StringifyItems(@)]]

\* reloadData on the nodes, the edges or the resources of a parsed graph
ReloadItems(items) ==
  [k \in 1..Len(items) |->
     [items[k] EXCEPT !.createdAt = NewDate(@), !.updatedAt = NewDate(@)]]

\* reloadData without the conversion of publishedAt
ReloadData_NoPublishedAt(data) ==
  [k \in 1..Len(data) |->
     [data[k] EXCEPT !.createdAt = NewDate(@),
                     !.updatedAt = NewDate(@),
                     !.publishedAt = NoDate,
                     !.archivedAt = IF @ # Undef THEN NewDate(@) ELSE NoDate,
                     !.nodes = ReloadItems(@),
                     !.edges = ReloadItems(@),
                     !.resources = ReloadItems(@)]]

\* reloadData: the map built from the graphs array of graph.json, the date
\* strings turned into Date objects
ReloadData(data) ==
  [k \in 1..Len(data) |->
     [data[k] EXCEPT !.createdAt = NewDate(@),
                     !.updatedAt = NewDate(@),
                     !.publishedAt = IF @ # Undef THEN NewDate(@) ELSE NoDate,
                     !.archivedAt = IF @ # Undef THEN NewDate(@) ELSE NoDate,
                     !.nodes = ReloadItems(@),
                     !.edges = ReloadItems(@),
                     !.resources = ReloadItems(@)]]

\* init() throws: FileService.init() failed on the first call
InitThrows(f) == ~initialized /\ config.fileService /\ ~f.init

\* reloadData runs in this call (from init(), or because the map is empty)
\* and finds a graphs array in graph.json
Reloads(f) ==
  /\ config.fileService
  /\ ~initialized \/ Len(graphs) = 0
  /\ f.load
  /\ disk.hasGraphs

\* the registry after ensureInitialized()
EnsureInitialized(f) ==
  IF Reloads(f) THEN ReloadData(disk.graphs) ELSE graphs

\* persistChanges() reaches updateGraphFile
Persists == config.fileService /\ config.autoPersist

\* updateGraphFile throws
WriteThrows(gs, f) ==
  /\ Persists
  /\ \/ f.write = "fail"
     \/ f.write = "docFail" /\ Some(gs, LAMBDA g : g.status = "published")

\* updateMarkdownDoc: resources/md/${graph.id}.md
MarkdownDoc(id) ==
  [dir |-> "md", base |-> Undef, owner |-> "doc", ownerId |-> id,
   time |-> NoDate]

\* graph.json and the Markdown documents after persistChanges()
UpdateGraphFile(gs, f) ==
  IF Persists /\ f.write # "fail"
  THEN [disk EXCEPT
          !.hasGraphs = TRUE,
          !.graphs = Stringify(gs),
          !.files = @ \cup
                      IF f.write = "ok"
                      THEN {MarkdownDoc(gs[k].id) :
                              k \in {j \in 1..Len(gs) : gs[j].status = "published"}}
                      ELSE {}]
  ELSE disk

\* the call threw before ensureInitialized()
Rejected(result) == Outcome(graphs, result, disk, initialized, 0)

\* the call threw in init()
InitFailed == Outcome(graphs, "PersistenceFailure", disk, FALSE, 0)

\* the call threw `result` after ensureInitialized(), the registry being gs
Throw(gs, result) == Outcome(gs, result, disk, TRUE, 0)

\* persistChanges() that restores the registry when the write throws
Commit_Rollback(gs, f, ids) ==
  Outcome(IF WriteThrows(gs, f) THEN EnsureInitialized(f) ELSE gs,
          IF WriteThrows(gs, f) THEN "PersistenceFailure" ELSE "ok",
          UpdateGraphFile(gs, f), TRUE, ids)

\* the call reached persistChanges() with the registry gs
Commit(gs, f, ids) ==
  Outcome(gs, IF WriteThrows(gs, f) THEN "PersistenceFailure" ELSE "ok",
          UpdateGraphFile(gs, f), TRUE, ids)

\* saveResource / saveSvg / saveMd wrote the file `path` during the call
Stored(o, path) == [o EXCEPT !.disk.files = @ \cup {path}]

\* FileService.saveSvg / saveMd in the call with outcome o, on a disk whose
\* contents are recorded: the content is written to the file the call
\* created; a file of that name that existed before the call is left as it
\* was (`if (!existsSync(filePath))`)
Saved(o, content) ==
  LET created == {path \in o.disk.files \ disk.files : path.owner # "doc"}
  IN [o EXCEPT !.disk.content =
        {entry \in @ : entry.path \notin created}
          \cup {[path |-> path, content |-> content] : path \in created}]

\* deleteSvg / deleteMd: the files of that name in resources/svg or
\* resources/md are gone after the call; the name is the last segment of
\* resource.path
Unlinked(o, names) == [o EXCEPT !.disk.files = @ \ names]

\* the file deleteGraph and deleteResource look for: the last segment of
\* resource.path, in the directory dir
FileNamed(resource, dir) == [resource.path EXCEPT !.dir = dir]

\* a write to one graph of the registry (the Graph object is shared)
PutGraph(gs, g) == SetAt(gs, GraphIndex(gs, g.id), g)

\* -------------------------------------------------------- graph operations
\* createGraph without the check of the kind
createGraph_NoKindCheck(name, type, description, f) ==
  IF name = "" THEN Rejected("InvalidInput")
  ELSE IF InitThrows(f) THEN InitFailed
  ELSE LET gs == EnsureInitialized(f)
           g == Create(nextId, name, IF type = Undef THEN "topology" ELSE type,
                       description, now)
       IN Commit(MapSet(gs, g), f, 1)

\* createGraph(name, type?, description?)
createGraph(name, type, description, f) ==
  IF name = "" THEN Rejected("InvalidInput")
  ELSE IF type # Undef /\ type \notin GraphType THEN Rejected("TypeMismatch")
  ELSE IF InitThrows(f) THEN InitFailed
  ELSE LET gs == EnsureInitialized(f)
           g == Create(nextId, name, IF type = Undef THEN "topology" ELSE type,
                       description, now)
       IN Commit(MapSet(gs, g), f, 1)

\* getGraph(id)
getGraph(id, f) ==
  IF InitThrows(f) THEN InitFailed
  ELSE LET gs == EnsureInitialized(f)
       IN IF GraphIndex(gs, id) = 0 THEN Throw(gs, "NotFound")
          ELSE Throw(gs, "ok")

\* updateGraph(id, {name?, description?})
updateGraph(id, name, description, f) ==
  IF InitThrows(f) THEN InitFailed
  ELSE LET gs == EnsureInitialized(f)
           i == GraphIndex(gs, id)
       IN IF i = 0 THEN Throw(gs, "NotFound")
          ELSE IF gs[i].status = "archived" THEN Throw(gs, "ImmutableState")
          ELSE LET g1 == IF name # Undef /\ name # ""
                         THEN [gs[i] EXCEPT !.name = name] ELSE gs[i]
                   g2 == IF description # Undef
                         THEN [g1 EXCEPT !.description = description] ELSE g1
                   g3 == [g2 EXCEPT !.updatedAt = now]
               IN Commit(PutGraph(gs, g3), f, 0)

\* archiveGraph that accepts draft graphs only
archiveGraph_DraftOnly(id, f) ==
  IF InitThrows(f) THEN InitFailed
  ELSE LET gs == EnsureInitialized(f)
           i == GraphIndex(gs, id)
       IN IF i = 0 THEN Throw(gs, "NotFound")
          ELSE IF gs[i].status # "draft" THEN Throw(gs, "ImmutableState")
          ELSE LET g == [gs[i] EXCEPT !.status = "archived",
                                      !.archivedAt = now,
                                      !.updatedAt = now]
               IN Commit(PutGraph(gs, g), f, 0)

\* archiveGraph(id)
archiveGraph(id, f) ==
  IF InitThrows(f) THEN InitFailed
  ELSE LET gs == EnsureInitialized(f)
           i == GraphIndex(gs, id)
       IN IF i = 0 THEN Throw(gs, "NotFound")
          ELSE LET g == [gs[i] EXCEPT !.status = "archived",
                                      !.archivedAt = now,
                                      !.updatedAt = now]
               IN Commit(PutGraph(gs, g), f, 0)

\* deleteGraph(id): the files of the resources of type svg and md are
\* deleted (not those of type markdown); f.artifact = FALSE: the deletions
\* throw, which is swallowed
deleteGraph(id, f) ==
  IF InitThrows(f) THEN InitFailed
  ELSE LET gs == EnsureInitialized(f)
           i == GraphIndex(gs, id)
       IN IF i = 0 THEN Throw(gs, "NotFound")
          ELSE LET resources == Range(gs[i].resources)
                   names ==
                     IF config.fileService /\ f.artifact
                     THEN {FileNamed(r, "svg") : r \in {x \in resources : x.type = "svg"}}
                          \cup
                          {FileNamed(r, "md") : r \in {x \in resources : x.type = "md"}}
                     ELSE {}
               IN Unlinked(Commit(MapDelete(gs, id), f, 0), names)

\* --------------------------------------------------------- node operations
\* addNode that accepts draft graphs only
addNode_DraftOnly(graphId, nodeType, name, description, filePath, metadata, f) ==
  IF InitThrows(f) THEN InitFailed
  ELSE LET gs == EnsureInitialized(f)
           i == GraphIndex(gs, graphId)
       IN IF i = 0 THEN Throw(gs, "NotFound")
          ELSE IF ~NodeTypeAllowed(gs[i].type, nodeType)
            THEN Throw(gs, "TypeMismatch")
          ELSE IF gs[i].status # "draft" THEN Throw(gs, "ImmutableState")
          ELSE IF Some(gs[i].nodes, LAMBDA n : n.name = name)
            THEN Throw(gs, "DuplicateName")
          ELSE LET node == CreateNode(nextId, nodeType, name, description,
                                      filePath, metadata, now)
                   g == [gs[i] EXCEPT !.nodes = Append(@, node),
                                      !.updatedAt = now]
               IN Commit(PutGraph(gs, g), f, 1)

\* addNode from the lookup of the graph to persistChanges(), on the
\* registry gs that ensureInitialized() left
AppendNode(gs, graphId, nodeType, name, description, filePath, metadata, f) ==
  LET i == GraphIndex(gs, graphId)
  IN IF i = 0 THEN Throw(gs, "NotFound")
     ELSE IF ~NodeTypeAllowed(gs[i].type, nodeType)
       THEN Throw(gs, "TypeMismatch")
     ELSE IF gs[i].status = "archived" THEN Throw(gs, "ImmutableState")
     ELSE IF Some(gs[i].nodes, LAMBDA n : n.name = name)
       THEN Throw(gs, "DuplicateName")
     ELSE LET node == CreateNode(nextId, nodeType, name, description,
                                 filePath, metadata, now)
              g == [gs[i] EXCEPT !.nodes = Append(@, node),
                                 !.updatedAt = now]
          IN Commit(PutGraph(gs, g), f, 1)

\* addNode(graphId, nodeType, name, description?, filePath?, metadata?)
addNode(graphId, nodeType, name, description, filePath, metadata, f) ==
  IF InitThrows(f) THEN InitFailed
  ELSE AppendNode(EnsureInitialized(f), graphId, nodeType, name, description,
                  filePath, metadata, f)

\* updateNode without the check of the new name against the other nodes
updateNode_NoNameCheck(graphId, nodeId, name, description, filePath, metadata, f) ==
  IF InitThrows(f) THEN InitFailed
  ELSE LET gs == EnsureInitialized(f)
           i == GraphIndex(gs, graphId)
       IN IF i = 0 THEN Throw(gs, "NotFound")
          ELSE IF gs[i].status = "archived" THEN Throw(gs, "ImmutableState")
          ELSE LET nodeIndex == FindIndex(gs[i].nodes, LAMBDA n : n.id = nodeId)
               IN IF nodeIndex = 0 THEN Throw(gs, "NotFound")
                  ELSE LET node == gs[i].nodes[nodeIndex]
                           renames == name # Undef /\ name # "" /\ name # node.name
                       IN IF FALSE
                            THEN Throw(gs, "DuplicateName")
                          ELSE LET n1 == IF renames
                                         THEN [node EXCEPT !.name = name] ELSE node
                                   n2 == IF description # Undef
                                         THEN [n1 EXCEPT !.description = description]
                                         ELSE n1
                                   n3 == IF filePath # Undef
                                         THEN [n2 EXCEPT !.filePath = filePath]
                                         ELSE n2
                                   n4 == IF metadata # Undef
                                         THEN [n3 EXCEPT !.metadata = metadata]
                                         ELSE n3
                                   n5 == [n4 EXCEPT !.updatedAt = now]
                                   g == [gs[i] EXCEPT
                                           !.nodes = SetAt(@, nodeIndex, n5),
                                           !.updatedAt = now]
                               IN Commit(PutGraph(gs, g), f, 0)

\* updateNode(graphId, nodeId, {name?, description?, filePath?, metadata?})
updateNode(graphId, nodeId, name, description, filePath, metadata, f) ==
  IF InitThrows(f) THEN InitFailed
  ELSE LET gs == EnsureInitialized(f)
           i == GraphIndex(gs, graphId)
       IN IF i = 0 THEN Throw(gs, "NotFound")
          ELSE IF gs[i].status = "archived" THEN Throw(gs, "ImmutableState")
          ELSE LET nodeIndex == FindIndex(gs[i].nodes, LAMBDA n : n.id = nodeId)
               IN IF nodeIndex = 0 THEN Throw(gs, "NotFound")
                  ELSE LET node == gs[i].nodes[nodeIndex]
                           renames == name # Undef /\ name # "" /\ name # node.name
                       IN IF renames /\ Some(gs[i].nodes,
                                  LAMBDA n : n.name = name /\ n.id # nodeId)
                            THEN Throw(gs, "DuplicateName")
                          ELSE LET n1 == IF renames
                                         THEN [node EXCEPT !.name = name] ELSE node
                                   n2 == IF description # Undef
                                         THEN [n1 EXCEPT !.description = description]
                                         ELSE n1
                                   n3 == IF filePath # Undef
                                         THEN [n2 EXCEPT !.filePath = filePath]
                                         ELSE n2
                                   n4 == IF metadata # Undef
                                         THEN [n3 EXCEPT !.metadata = metadata]
                                         ELSE n3
                                   n5 == [n4 EXCEPT !.updatedAt = now]
                                   g == [gs[i] EXCEPT
                                           !.nodes = SetAt(@, nodeIndex, n5),
                                           !.updatedAt = now]
                               IN Commit(PutGraph(gs, g), f, 0)

\* deleteNode without the test for the root node
deleteNode_NoRootCheck(graphId, nodeId, f) ==
  IF InitThrows(f) THEN InitFailed
  ELSE LET gs == EnsureInitialized(f)
           i == GraphIndex(gs, graphId)
       IN IF i = 0 THEN Throw(gs, "NotFound")
          ELSE IF gs[i].status = "archived" THEN Throw(gs, "ImmutableState")
          ELSE LET nodeIndex == FindIndex(gs[i].nodes, LAMBDA n : n.id = nodeId)
               IN IF nodeIndex = 0 THEN Throw(gs, "NotFound")
                  ELSE LET g == [gs[i] EXCEPT
                                   !.edges = SelectSeq(@, LAMBDA e :
                                      e.source # nodeId /\ e.target # nodeId),
                                   !.nodes = Splice(@, nodeIndex),
                                   !.updatedAt = now]
                       IN Commit(PutGraph(gs, g), f, 0)

\* deleteNode that also removes the resources the node references
deleteNode_DropsResources(graphId, nodeId, f) ==
  IF InitThrows(f) THEN InitFailed
  ELSE LET gs == EnsureInitialized(f)
           i == GraphIndex(gs, graphId)
       IN IF i = 0 THEN Throw(gs, "NotFound")
          ELSE IF gs[i].status = "archived" THEN Throw(gs, "ImmutableState")
          ELSE LET nodeIndex == FindIndex(gs[i].nodes, LAMBDA n : n.id = nodeId)
               IN IF nodeIndex = 0 THEN Throw(gs, "NotFound")
                  ELSE IF gs[i].rootNodeId = nodeId
                    THEN Throw(gs, "ImmutableState")
                  ELSE LET g == [gs[i] EXCEPT
                                   !.edges = SelectSeq(@, LAMBDA e :
                                      e.source # nodeId /\ e.target # nodeId),
                                   !.resources = SelectSeq(@, LAMBDA r :
                                      ~Some(gs[i].nodes[nodeIndex].resources,
                                            LAMBDA id : id = r.id)),
                                   !.nodes = Splice(@, nodeIndex),
                                   !.updatedAt = now]
                       IN Commit(PutGraph(gs, g), f, 0)

\* deleteNode that removes the edges leaving the node only
deleteNode_SourceOnly(graphId, nodeId, f) ==
  IF InitThrows(f) THEN InitFailed
  ELSE LET gs == EnsureInitialized(f)
           i == GraphIndex(gs, graphId)
       IN IF i = 0 THEN Throw(gs, "NotFound")
          ELSE IF gs[i].status = "archived" THEN Throw(gs, "ImmutableState")
          ELSE LET nodeIndex == FindIndex(gs[i].nodes, LAMBDA n : n.id = nodeId)
               IN IF nodeIndex = 0 THEN Throw(gs, "NotFound")
                  ELSE IF gs[i].rootNodeId = nodeId
                    THEN Throw(gs, "ImmutableState")
                  ELSE LET g == [gs[i] EXCEPT
                                   !.edges = SelectSeq(@, LAMBDA e :
                                      e.source # nodeId),
                                   !.nodes = Splice(@, nodeIndex),
                                   !.updatedAt = now]
                       IN Commit(PutGraph(gs, g), f, 0)

\* deleteNode(graphId, nodeId)
deleteNode(graphId, nodeId, f) ==
  IF InitThrows(f) THEN InitFailed
  ELSE LET gs == EnsureInitialized(f)
           i == GraphIndex(gs, graphId)
       IN IF i = 0 THEN Throw(gs, "NotFound")
          ELSE IF gs[i].status = "archived" THEN Throw(gs, "ImmutableState")
          ELSE LET nodeIndex == FindIndex(gs[i].nodes, LAMBDA n : n.id = nodeId)
               IN IF nodeIndex = 0 THEN Throw(gs, "NotFound")
                  ELSE IF gs[i].rootNodeId = nodeId
                    THEN Throw(gs, "ImmutableState")
                  ELSE LET g == [gs[i] EXCEPT
                                   !.edges = SelectSeq(@, LAMBDA e :
                                      e.source # nodeId /\ e.target # nodeId),
                                   !.nodes = Splice(@, nodeIndex),
                                   !.updatedAt = now]
                       IN Commit(PutGraph(gs, g), f, 0)

\* --------------------------------------------------------- edge operations
\* addEdge without the check for an edge with the same triple
addEdge_NoTripleCheck(graphId, edgeType, source, target, label, weight, metadata, f) ==
  IF InitThrows(f) THEN InitFailed
  ELSE LET gs == EnsureInitialized(f)
           i == GraphIndex(gs, graphId)
       IN IF i = 0 THEN Throw(gs, "NotFound")
          ELSE IF ~EdgeTypeAllowed(gs[i].type, edgeType)
            THEN Throw(gs, "TypeMismatch")
          ELSE IF gs[i].status = "archived" THEN Throw(gs, "ImmutableState")
          ELSE IF ~Some(gs[i].nodes, LAMBDA n : n.id = source)
            THEN Throw(gs, "NotFound")
          ELSE IF ~Some(gs[i].nodes, LAMBDA n : n.id = target)
            THEN Throw(gs, "NotFound")
          ELSE IF FALSE
            THEN Throw(gs, "DuplicateRelationship")
          ELSE LET edge == CreateEdge(nextId, edgeType, source, target, label,
                                      weight, metadata, now)
                   g == [gs[i] EXCEPT !.edges = Append(@, edge),
                                      !.updatedAt = now]
               IN Commit(PutGraph(gs, g), f, 1)

\* addEdge(graphId, edgeType, source, target, label?, weight?, metadata?)
addEdge(graphId, edgeType, source, target, label, weight, metadata, f) ==
  IF InitThrows(f) THEN InitFailed
  ELSE LET gs == EnsureInitialized(f)
           i == GraphIndex(gs, graphId)
       IN IF i = 0 THEN Throw(gs, "NotFound")
          ELSE IF ~EdgeTypeAllowed(gs[i].type, edgeType)
            THEN Throw(gs, "TypeMismatch")
          ELSE IF gs[i].status = "archived" THEN Throw(gs, "ImmutableState")
          ELSE IF ~Some(gs[i].nodes, LAMBDA n : n.id = source)
            THEN Throw(gs, "NotFound")
          ELSE IF ~Some(gs[i].nodes, LAMBDA n : n.id = target)
            THEN Throw(gs, "NotFound")
          ELSE IF Some(gs[i].edges, LAMBDA e :
                    e.source = source /\ e.target = target /\ e.type = edgeType)
            THEN Throw(gs, "DuplicateRelationship")
          ELSE LET edge == CreateEdge(nextId, edgeType, source, target, label,
                                      weight, metadata, now)
                   g == [gs[i] EXCEPT !.edges = Append(@, edge),
                                      !.updatedAt = now]
               IN Commit(PutGraph(gs, g), f, 1)

\* updateEdge(graphId, edgeId, {label?, weight?, metadata?})
updateEdge(graphId, edgeId, label, weight, metadata, f) ==
  IF InitThrows(f) THEN InitFailed
  ELSE LET gs == EnsureInitialized(f)
           i == GraphIndex(gs, graphId)
       IN IF i = 0 THEN Throw(gs, "NotFound")
          ELSE IF gs[i].status = "archived" THEN Throw(gs, "ImmutableState")
          ELSE LET edgeIndex == FindIndex(gs[i].edges, LAMBDA e : e.id = edgeId)
               IN IF edgeIndex = 0 THEN Throw(gs, "NotFound")
                  ELSE LET edge == gs[i].edges[edgeIndex]
                           e1 == IF label # Undef
                                 THEN [edge EXCEPT !.label = label] ELSE edge
                           e2 == IF weight # Undef
                                 THEN [e1 EXCEPT !.weight = weight] ELSE e1
                           e3 == IF metadata # Undef
                                 THEN [e2 EXCEPT !.metadata = metadata] ELSE e2
                           e4 == [e3 EXCEPT !.updatedAt = now]
                           g == [gs[i] EXCEPT
                                   !.edges = SetAt(@, edgeIndex, e4),
                                   !.updatedAt = now]
                       IN Commit(PutGraph(gs, g), f, 0)

\* deleteEdge(graphId, edgeId)
deleteEdge(graphId, edgeId, f) ==
  IF InitThrows(f) THEN InitFailed
  ELSE LET gs == EnsureInitialized(f)
           i == GraphIndex(gs, graphId)
       IN IF i = 0 THEN Throw(gs, "NotFound")
          ELSE IF gs[i].status = "archived" THEN Throw(gs, "ImmutableState")
          ELSE LET edgeIndex == FindIndex(gs[i].edges, LAMBDA e : e.id = edgeId)
               IN IF edgeIndex = 0 THEN Throw(gs, "NotFound")
                  ELSE LET g == [gs[i] EXCEPT !.edges = Splice(@, edgeIndex),
                                              !.updatedAt = now]
                       IN Commit(PutGraph(gs, g), f, 0)

\* ----------------------------------------------------- resource operations
\* The path of a stored artifact.  saveSvg / saveMd files are named
\* `${base}_${owner}_${ownerId.slice(0, 8)}_${time}` in resources/svg or
\* resources/md (generateFileNameWithTime); addResource stores
\* resources/${resource.id}.${type}.
ArtifactPath(dir, base, owner, ownerId, time) ==
  [dir |-> dir, base |-> base, owner |-> owner, ownerId |-> ownerId,
   time |-> time]

\* r.path.includes(`graph_${id.slice(0, 8)}`)
PathIncludesGraph(path, id) == path.owner = "graph" /\ path.ownerId = id

\* `${graph.name} 知识图谱`, the name of the resource publishGraph adds
PublishedName(graphName) == graphName \o " graph"

\* generateGraphSvg(graph): the SVG document drawn from the graph
GeneratedSvg(graph) == "<svg>" \o graph.name

\* `${graph.name}图谱可视化`, the name of the resource updateGraphSvg writes
VisualizationName(graphName) == graphName \o " visualization"

\* the record saveMdToGraph and saveSvgToNode push
ResourceData(id, name, type, title, description, path, createdAt, t) ==
  [id |-> id, name |-> name, type |-> type, path |-> path, title |-> title,
   description |-> description, createdAt |-> createdAt, updatedAt |-> t]

\* node.resources.push(resourceId); node.updatedAt = new Date()
PushReference(nodes, nodeIndex, resourceId, t) ==
  [nodes EXCEPT ![nodeIndex].resources = Append(@, resourceId),
                ![nodeIndex].updatedAt = t]

\* addResource(graphId, name, type, content, description?)
addResource(graphId, name, type, description, f) ==
  IF InitThrows(f) THEN InitFailed
  ELSE LET gs == EnsureInitialized(f)
           i == GraphIndex(gs, graphId)
       IN IF i = 0 THEN Throw(gs, "NotFound")
          ELSE IF gs[i].status = "archived" THEN Throw(gs, "ImmutableState")
          ELSE IF Some(gs[i].resources, LAMBDA r : r.name = name)
            THEN Throw(gs, "DuplicateName")
          ELSE IF ~config.fileService
            THEN [Throw(gs, "NoFileService") EXCEPT !.ids = 1]
          ELSE IF ~f.artifact
            THEN [Throw(gs, "PersistenceFailure") EXCEPT !.ids = 1]
          ELSE LET resource ==
                     CreateResource(nextId, name, type,
                       ArtifactPath("resources", Undef, "resource", nextId, NoDate),
                       description, now)
                   g == [gs[i] EXCEPT !.resources = Append(@, resource),
                                      !.updatedAt = now]
               IN Stored(Commit(PutGraph(gs, g), f, 1), resource.path)

\* a linkResourceToNode that does not look for the reference in the node
linkResourceToNode_NoLinkedCheck(graphId, nodeId, resourceId, f) ==
  IF InitThrows(f) THEN InitFailed
  ELSE LET gs == EnsureInitialized(f)
           i == GraphIndex(gs, graphId)
       IN IF i = 0 THEN Throw(gs, "NotFound")
          ELSE IF gs[i].status = "archived" THEN Throw(gs, "ImmutableState")
          ELSE LET nodeIndex == FindIndex(gs[i].nodes, LAMBDA n : n.id = nodeId)
               IN IF nodeIndex = 0 THEN Throw(gs, "NotFound")
                  ELSE IF ~Some(gs[i].resources, LAMBDA r : r.id = resourceId)
                    THEN Throw(gs, "NotFound")
                  ELSE LET g == [gs[i] EXCEPT
                                   !.nodes = PushReference(@, nodeIndex,
                                                           resourceId, now),
                                   !.updatedAt = now]
                       IN Commit(PutGraph(gs, g), f, 0)

\* linkResourceToNode(graphId, nodeId, resourceId)
linkResourceToNode(graphId, nodeId, resourceId, f) ==
  IF InitThrows(f) THEN InitFailed
  ELSE LET gs == EnsureInitialized(f)
           i == GraphIndex(gs, graphId)
       IN IF i = 0 THEN Throw(gs, "NotFound")
          ELSE IF gs[i].status = "archived" THEN Throw(gs, "ImmutableState")
          ELSE LET nodeIndex == FindIndex(gs[i].nodes, LAMBDA n : n.id = nodeId)
               IN IF nodeIndex = 0 THEN Throw(gs, "NotFound")
                  ELSE IF ~Some(gs[i].resources, LAMBDA r : r.id = resourceId)
                    THEN Throw(gs, "NotFound")
                  ELSE IF Some(gs[i].nodes[nodeIndex].resources,
                               LAMBDA id : id = resourceId)
                    THEN Throw(gs, "AlreadyLinked")
                  ELSE LET g == [gs[i] EXCEPT
                                   !.nodes = PushReference(@, nodeIndex,
                                                           resourceId, now),
                                   !.updatedAt = now]
                       IN Commit(PutGraph(gs, g), f, 0)

\* an unlinkResourceFromNode that takes the reference out of every node
unlinkResourceFromNode_EveryNode(graphId, nodeId, resourceId, f) ==
  IF InitThrows(f) THEN InitFailed
  ELSE LET gs == EnsureInitialized(f)
           i == GraphIndex(gs, graphId)
       IN IF i = 0 THEN Throw(gs, "NotFound")
          ELSE IF gs[i].status = "archived" THEN Throw(gs, "ImmutableState")
          ELSE LET nodeIndex == FindIndex(gs[i].nodes, LAMBDA n : n.id = nodeId)
               IN IF nodeIndex = 0 THEN Throw(gs, "NotFound")
                  ELSE IF ~Some(gs[i].nodes[nodeIndex].resources,
                                LAMBDA id : id = resourceId)
                    THEN Throw(gs, "NotLinked")
                  ELSE LET g == [gs[i] EXCEPT
                                   !.nodes =
                                      [k \in 1..Len(@) |->
                                         [@[k] EXCEPT !.resources =
                                            SelectSeq(@, LAMBDA id : id # resourceId)]],
                                   !.nodes[nodeIndex].updatedAt = now,
                                   !.updatedAt = now]
                       IN Commit(PutGraph(gs, g), f, 0)

\* unlinkResourceFromNode(graphId, nodeId, resourceId)
unlinkResourceFromNode(graphId, nodeId, resourceId, f) ==
  IF InitThrows(f) THEN InitFailed
  ELSE LET gs == EnsureInitialized(f)
           i == GraphIndex(gs, graphId)
       IN IF i = 0 THEN Throw(gs, "NotFound")
          ELSE IF gs[i].status = "archived" THEN Throw(gs, "ImmutableState")
          ELSE LET nodeIndex == FindIndex(gs[i].nodes, LAMBDA n : n.id = nodeId)
               IN IF nodeIndex = 0 THEN Throw(gs, "NotFound")
                  ELSE IF ~Some(gs[i].nodes[nodeIndex].resources,
                                LAMBDA id : id = resourceId)
                    THEN Throw(gs, "NotLinked")
                  ELSE LET g == [gs[i] EXCEPT
                                   !.nodes[nodeIndex].resources =
                                      SelectSeq(@, LAMBDA id : id # resourceId),
                                   !.nodes[nodeIndex].updatedAt = now,
                                   !.updatedAt = now]
                       IN Commit(PutGraph(gs, g), f, 0)

\* publishGraph without the write of publishedAt
publishGraph_NoPublishedAt(id, f) ==
  IF InitThrows(f) THEN InitFailed
  ELSE LET gs == EnsureInitialized(f)
           i == GraphIndex(gs, id)
       IN IF i = 0 THEN Throw(gs, "NotFound")
          ELSE IF gs[i].status = "archived" THEN Throw(gs, "ImmutableState")
          ELSE LET g1 == [gs[i] EXCEPT !.status = "published",
                                       !.updatedAt = now]
               IN IF ~(config.generateSvg /\ config.fileService)
                    THEN Commit(PutGraph(gs, g1), f, 0)
                  ELSE IF ~f.artifact
                    THEN Throw(PutGraph(gs, g1), "PersistenceFailure")
                  ELSE LET resource ==
                             CreateResource(nextId, PublishedName(g1.name), "svg",
                               ArtifactPath("svg", g1.name, "graph", id, now),
                               "generated", now)
                           g2 == [g1 EXCEPT !.resources = Append(@, resource)]
                       IN Stored(Commit(PutGraph(gs, g2), f, 1), resource.path)

\* publishGraph that accepts draft graphs only
publishGraph_DraftOnly(id, f) ==
  IF InitThrows(f) THEN InitFailed
  ELSE LET gs == EnsureInitialized(f)
           i == GraphIndex(gs, id)
       IN IF i = 0 THEN Throw(gs, "NotFound")
          ELSE IF gs[i].status # "draft" THEN Throw(gs, "ImmutableState")
          ELSE LET g1 == [gs[i] EXCEPT !.status = "published",
                                       !.publishedAt = now,
                                       !.updatedAt = now]
               IN IF ~(config.generateSvg /\ config.fileService)
                    THEN Commit(PutGraph(gs, g1), f, 0)
                  ELSE IF ~f.artifact
                    THEN Throw(PutGraph(gs, g1), "PersistenceFailure")
                  ELSE LET resource ==
                             CreateResource(nextId, PublishedName(g1.name), "svg",
                               ArtifactPath("svg", g1.name, "graph", id, now),
                               "generated", now)
                           g2 == [g1 EXCEPT !.resources = Append(@, resource)]
                       IN Stored(Commit(PutGraph(gs, g2), f, 1), resource.path)

\* publishGraph(id): the status is written before the SVG is saved
publishGraph(id, f) ==
  IF InitThrows(f) THEN InitFailed
  ELSE LET gs == EnsureInitialized(f)
           i == GraphIndex(gs, id)
       IN IF i = 0 THEN Throw(gs, "NotFound")
          ELSE IF gs[i].status = "archived" THEN Throw(gs, "ImmutableState")
          ELSE LET g1 == [gs[i] EXCEPT !.status = "published",
                                       !.publishedAt = now,
                                       !.updatedAt = now]
               IN IF ~(config.generateSvg /\ config.fileService)
                    THEN Commit(PutGraph(gs, g1), f, 0)
                  ELSE IF ~f.artifact
                    THEN Throw(PutGraph(gs, g1), "PersistenceFailure")
                  ELSE LET resource ==
                             CreateResource(nextId, PublishedName(g1.name), "svg",
                               ArtifactPath("svg", g1.name, "graph", id, now),
                               "generated", now)
                           g2 == [g1 EXCEPT !.resources = Append(@, resource)]
                       IN Stored(Commit(PutGraph(gs, g2), f, 1), resource.path)

\* saveMdToGraph(id, nodeId | null, title, content, description = '')
\* (linkMdToGraph is an alias); the resource is pushed before the node is
\* looked up
saveMdToGraph(id, nodeId, title, description, f) ==
  IF InitThrows(f) THEN InitFailed
  ELSE LET gs == EnsureInitialized(f)
           i == GraphIndex(gs, id)
       IN IF i = 0 THEN Throw(gs, "NotFound")
          ELSE IF ~config.fileService THEN Throw(gs, "NoFileService")
          ELSE IF ~f.artifact THEN Throw(gs, "PersistenceFailure")
          ELSE LET resourceData ==
                     ResourceData(ResIdBase + now, title, "markdown", title,
                       IF description = "" THEN title ELSE description,
                       ArtifactPath("md", title,
                         IF nodeId # NoId THEN "node" ELSE "graph",
                         IF nodeId # NoId THEN nodeId ELSE id, now),
                       now, now)
                   g1 == [gs[i] EXCEPT !.resources = Append(@, resourceData)]
                   nodeIndex == FindIndex(g1.nodes, LAMBDA n : n.id = nodeId)
               IN IF nodeId # NoId /\ nodeIndex = 0
                    THEN Stored(Throw(PutGraph(gs, g1), "NotFound"),
                                resourceData.path)
                  ELSE LET g2 == IF nodeId # NoId
                                 THEN [g1 EXCEPT !.nodes =
                                         PushReference(@, nodeIndex,
                                                       resourceData.id, now)]
                                 ELSE g1
                           g3 == [g2 EXCEPT !.updatedAt = now]
                       IN Stored(Commit(PutGraph(gs, g3), f, 0),
                                 resourceData.path)

\* saveSvgToNode(id, nodeId, title, description = '', svgContent);
\* validSvg: svgContent is a string that starts with '<svg'
saveSvgToNode(id, nodeId, title, description, validSvg, f) ==
  IF InitThrows(f) THEN InitFailed
  ELSE LET gs == EnsureInitialized(f)
           i == GraphIndex(gs, id)
       IN IF i = 0 THEN Throw(gs, "NotFound")
          ELSE LET nodeIndex == FindIndex(gs[i].nodes, LAMBDA n : n.id = nodeId)
               IN IF nodeIndex = 0 THEN Throw(gs, "NotFound")
                  ELSE IF ~config.fileService THEN Throw(gs, "NoFileService")
                  ELSE IF ~validSvg THEN Throw(gs, "InvalidInput")
                  ELSE IF ~f.artifact THEN Throw(gs, "PersistenceFailure")
                  ELSE LET resourceData ==
                             ResourceData(ResIdBase + now, title, "svg", title,
                               IF description = "" THEN title ELSE description,
                               ArtifactPath("svg", title, "node", nodeId, now),
                               now, now)
                           g == [gs[i] EXCEPT
                                   !.resources = Append(@, resourceData),
                                   !.nodes = PushReference(@, nodeIndex,
                                                           resourceData.id, now),
                                   !.updatedAt = now]
                       IN Stored(Commit(PutGraph(gs, g), f, 0),
                                 resourceData.path)

\* updateGraphSvg(id, svgContent) (saveGraphSvg is an alias)
updateGraphSvg(id, validSvg, f) ==
  IF InitThrows(f) THEN InitFailed
  ELSE LET gs == EnsureInitialized(f)
           i == GraphIndex(gs, id)
       IN IF i = 0 THEN Throw(gs, "NotFound")
          ELSE IF ~config.fileService THEN Throw(gs, "NoFileService")
          ELSE IF ~validSvg THEN Throw(gs, "InvalidInput")
          ELSE IF ~f.artifact THEN Throw(gs, "PersistenceFailure")
          ELSE LET existingIndex ==
                     FindIndex(gs[i].resources, LAMBDA r :
                       r.type = "svg" /\ PathIncludesGraph(r.path, id))
                   resourceData ==
                     ResourceData(
                       IF existingIndex > 0 THEN gs[i].resources[existingIndex].id
                       ELSE ResIdBase + now,
                       VisualizationName(gs[i].name), "svg", "visualization",
                       VisualizationName(gs[i].name),
                       ArtifactPath("svg", gs[i].name, "graph", id, now),
                       IF existingIndex > 0
                       THEN gs[i].resources[existingIndex].createdAt ELSE now,
                       now)
                   g == [gs[i] EXCEPT
                           !.resources = IF existingIndex > 0
                                         THEN SetAt(@, existingIndex, resourceData)
                                         ELSE Append(@, resourceData),
                           !.updatedAt = now]
               IN Stored(Commit(PutGraph(gs, g), f, 0), resourceData.path)

\* updateResource(graphId, resourceId, {name?, description?, title?})
updateResource(graphId, resourceId, name, description, title, f) ==
  IF InitThrows(f) THEN InitFailed
  ELSE LET gs == EnsureInitialized(f)
           i == GraphIndex(gs, graphId)
       IN IF i = 0 THEN Throw(gs, "NotFound")
          ELSE LET resourceIndex ==
                     FindIndex(gs[i].resources, LAMBDA r : r.id = resourceId)
               IN IF resourceIndex = 0 THEN Throw(gs, "NotFound")
                  ELSE LET resource == gs[i].resources[resourceIndex]
                           r1 == IF name # Undef /\ name # ""
                                 THEN [resource EXCEPT !.name = name]
                                 ELSE resource
                           r2 == IF description # Undef /\ description # ""
                                 THEN [r1 EXCEPT !.description = description]
                                 ELSE r1
                           r3 == IF title # Undef /\ title # ""
                                 THEN [r2 EXCEPT !.title = title] ELSE r2
                           r4 == [r3 EXCEPT !.updatedAt = now]
                           g == [gs[i] EXCEPT
                                   !.resources = SetAt(@, resourceIndex, r4),
                                   !.updatedAt = now]
                       IN Commit(PutGraph(gs, g), f, 0)

\* a deleteResource that leaves the reference lists of the nodes alone
PurgeReference_None(nodes, resourceId, t) == nodes

\* the loop of deleteResource over graph.nodes
PurgeReference(nodes, resourceId, t) ==
  [k \in 1..Len(nodes) |->
     IF Some(nodes[k].resources, LAMBDA id : id = resourceId)
     THEN [nodes[k] EXCEPT
             !.resources = SelectSeq(@, LAMBDA id : id # resourceId),
             !.updatedAt = t]
     ELSE nodes[k]]

\* deleteResource(graphId, resourceId): deleteSvg for the type svg, deleteMd
\* for the types markdown and md, no deletion for another type;
\* f.artifact = FALSE: the deletion throws, which is swallowed
deleteResource(graphId, resourceId, f) ==
  IF InitThrows(f) THEN InitFailed
  ELSE LET gs == EnsureInitialized(f)
           i == GraphIndex(gs, graphId)
       IN IF i = 0 THEN Throw(gs, "NotFound")
          ELSE LET resourceIndex ==
                     FindIndex(gs[i].resources, LAMBDA r : r.id = resourceId)
               IN IF resourceIndex = 0 THEN Throw(gs, "NotFound")
                  ELSE LET resource == gs[i].resources[resourceIndex]
                           names ==
                             IF ~(config.fileService /\ f.artifact) THEN {}
                             ELSE IF resource.type = "svg"
                               THEN {FileNamed(resource, "svg")}
                             ELSE IF resource.type \in {"markdown", "md"}
                               THEN {FileNamed(resource, "md")}
                             ELSE {}
                           g == [gs[i] EXCEPT
                                   !.nodes = PurgeReference(@, resourceId, now),
                                   !.resources = Splice(@, resourceIndex),
                                   !.updatedAt = now]
                       IN Unlinked(Commit(PutGraph(gs, g), f, 0), names)

\* importFromComponentAnalysis(graphId, analysisData): the import is a stub
importFromComponentAnalysis(graphId, f) ==
  IF InitThrows(f) THEN InitFailed
  ELSE LET gs == EnsureInitialized(f)
           i == GraphIndex(gs, graphId)
       IN IF i = 0 THEN Throw(gs, "NotFound")
          ELSE IF gs[i].status = "archived" THEN Throw(gs, "ImmutableState")
          ELSE Commit(PutGraph(gs, [gs[i] EXCEPT !.updatedAt = now]), f, 0)

\* -------------------------------------------------------------- tool server
\* getNodeDetails(graphId, nodeId)
getNodeDetails(graphId, nodeId, f) ==
  IF InitThrows(f) THEN InitFailed
  ELSE LET gs == EnsureInitialized(f)
           i == GraphIndex(gs, graphId)
       IN IF i = 0 THEN Throw(gs, "NotFound")
          ELSE IF ~Some(gs[i].nodes, LAMBDA n : n.id = nodeId)
            THEN Throw(gs, "NotFound")
          ELSE Throw(gs, "ok")

\* what getNodeDetails returns for a node of a graph: the edges by filter,
\* and for each id of node.resources, in that order, the first resource of
\* the graph with that id, if there is one
NodeDetails(graph, node) ==
  LET Find(resourceId) ==
        FindIndex(graph.resources, LAMBDA r : r.id = resourceId)
      found == SelectSeq(node.resources, LAMBDA resourceId : Find(resourceId) # 0)
  IN [node |-> node,
      incomingEdges |-> SelectSeq(graph.edges, LAMBDA e : e.target = node.id),
      outgoingEdges |-> SelectSeq(graph.edges, LAMBDA e : e.source = node.id),
      resources |-> [k \in 1..Len(found) |-> graph.resources[Find(found[k])]]]

\* `new Error(message)` thrown by the tool server: name is inherited from
\* Error.prototype
ToolError(message) == [ownName |-> Undef, message |-> message]

\* The error a failed call of the service, which left o, throws.  The text
\* of the message is the one of the throw site, written here as the name the
\* model gives the site.  KnowledgeGraphError sets this.name; the error of a
\* failed write is the one of fs, rethrown by updateGraphFile.
ServiceError(o) ==
  [ownName |-> IF o.result = "PersistenceFailure" /\ o.initialized THEN Undef
               ELSE "KnowledgeGraphError",
   message |-> o.result]

\* the result of a tool call: success, error (the message) and, in
\* content[0].text, errorDetail, of which `name` is kept here (stack is left
\* out)
Success == [success |-> TRUE, error |-> Undef, name |-> Undef]

\* handleError: message and stack, and the enumerable properties of the
\* error other than them, which for a KnowledgeGraphError is `name`
handleError(error) ==
  [success |-> FALSE, error |-> error.message, name |-> error.ownName]

\* what a tool call leaves: the outcome of the calls of the service it made,
\* its result, and the entries it appended to md/error_log.txt
ToolOutcome(o, response, logged) ==
  [o |-> o, response |-> response, logged |-> logged]

\* no call of the service was made
NoCall == Outcome(graphs, "none", disk, initialized, 0)

\* a tool method after its calls of the service, the last of which left o
Respond(o) ==
  ToolOutcome(o, IF o.result = "ok" THEN Success
                 ELSE handleError(ServiceError(o)), 0)

\* an argument that is present and true
Truthy(parameters, key) == key \in DOMAIN parameters /\ parameters[key]

\* KnowledgeGraphServer.createGraph
ToolCreateGraph(parameters, f) ==
  IF parameters.name = ""
    THEN ToolOutcome(NoCall, handleError(ToolError("missing name")), 0)
  ELSE IF parameters.type # Undef /\ parameters.type \notin GraphType
    THEN ToolOutcome(NoCall, handleError(ToolError("invalid graph type")), 0)
  ELSE Respond(createGraph(parameters.name, parameters.type, Undef, f))

\* KnowledgeGraphServer.addNode
ToolAddNode(parameters, f) ==
  Respond(addNode(parameters.graphId, parameters.type, parameters.name,
                  Undef, Undef, Undef, f))

\* KnowledgeGraphServer.deleteNode
ToolDeleteNode(parameters, f) ==
  IF ~Truthy(parameters, "confirmDelete")
    THEN ToolOutcome(NoCall, handleError(ToolError("not confirmed")), 0)
  ELSE LET details == getNodeDetails(parameters.graphId, parameters.nodeId, f)
       IN IF details.result # "ok" THEN Respond(details)
          ELSE Respond(deleteNode(parameters.graphId, parameters.nodeId, f))

\* `if (value)` of an optional string argument
Given(value) == value # Undef /\ value # ""

\* a graph with each node reduced to id, name and type
SimpleGraph(graph) ==
  [graph EXCEPT !.nodes = [k \in 1..Len(@) |->
                            [id |-> @[k].id, name |-> @[k].name,
                             type |-> @[k].type]]]

\* a listGraphsByType that does not filter by status
listGraphsByType_NoStatus(type, status) ==
  LET gs == EnsureInitialized(NoFaults)
      ofType == IF Given(type) THEN SelectSeq(gs, LAMBDA g : g.type = type)
                ELSE gs
  IN [k \in 1..Len(ofType) |-> SimpleGraph(ofType[k])]

\* listGraphsByType(type, status): what it returns when init() succeeds
listGraphsByType(type, status) ==
  LET gs == EnsureInitialized(NoFaults)
      ofType == IF Given(type) THEN SelectSeq(gs, LAMBDA g : g.type = type)
                ELSE gs
      ofStatus == IF Given(status)
                  THEN SelectSeq(ofType, LAMBDA g : g.status = status)
                  ELSE ofType
  IN [k \in 1..Len(ofStatus) |-> SimpleGraph(ofStatus[k])]

\* listGraphs(status): what it returns when init() succeeds
listGraphs(status) ==
  LET gs == EnsureInitialized(NoFaults)
      ofStatus == IF Given(status)
                  THEN SelectSeq(gs, LAMBDA g : g.status = status)
                  ELSE gs
  IN [k \in 1..Len(ofStatus) |-> SimpleGraph(ofStatus[k])]

\* KnowledgeGraphServer.listGraphs: the data of its result
ToolListGraphs(parameters) ==
  LET list == IF Given(parameters.type)
              THEN listGraphsByType(parameters.type, parameters.status)
              ELSE listGraphs(parameters.status)
  IN [k \in 1..Len(list) |->
        [id |-> list[k].id, name |-> list[k].name,
         description |-> list[k].description, type |-> list[k].type,
         status |-> list[k].status,
         nodesCount |-> Len(list[k].nodes), edgesCount |-> Len(list[k].edges),
         createdAt |-> StringifyDate(list[k].createdAt),
         updatedAt |-> StringifyDate(list[k].updatedAt),
         publishedAt |-> StringifyDate(list[k].publishedAt),
         nodes |-> list[k].nodes]]

\* a delete_edge that does not ask for the confirmation
ToolDeleteEdge_NoConfirm(parameters, f) ==
  Respond(deleteEdge(parameters.graphId, parameters.edgeId, f))

\* KnowledgeGraphServer.deleteEdge
ToolDeleteEdge(parameters, f) ==
  IF ~Truthy(parameters, "confirmDelete")
    THEN ToolOutcome(NoCall, handleError(ToolError("not confirmed")), 0)
  ELSE Respond(deleteEdge(parameters.graphId, parameters.edgeId, f))

\* KnowledgeGraphServer.deleteResource
ToolDeleteResource(parameters, f) ==
  IF ~Truthy(parameters, "confirmDelete")
    THEN ToolOutcome(NoCall, handleError(ToolError("not confirmed")), 0)
  ELSE Respond(deleteResource(parameters.graphId, parameters.resourceId, f))

\* handleRequest.  The tool methods catch their errors themselves and their
\* promises are returned without await, so the catch of handleRequest sees
\* the throw of the default case only: it appends to md/error_log.txt and
\* answers.  mdDir: the directory md exists in the working directory;
\* without it appendFile throws and handleRequest rejects.
handleRequest(toolName, parameters, f, mdDir) ==
  IF toolName = "create_graph" THEN ToolCreateGraph(parameters, f)
  ELSE IF toolName = "add_node" THEN ToolAddNode(parameters, f)
  ELSE IF toolName = "delete_node" THEN ToolDeleteNode(parameters, f)
  ELSE IF toolName = "delete_edge" THEN ToolDeleteEdge(parameters, f)
  ELSE IF toolName = "delete_resource" THEN ToolDeleteResource(parameters, f)
  ELSE IF mdDir
    THEN ToolOutcome(NoCall,
           [success |-> FALSE, error |-> "unknown tool", name |-> Undef], 1)
  ELSE ToolOutcome(NoCall, [rejected |-> "ENOENT"], 0)

\* the CallToolRequestSchema handler; isObject: request.params.arguments is
\* an object
CallTool(toolName, isObject, parameters, f, mdDir) ==
  IF ~isObject
    THEN ToolOutcome(NoCall,
           [success |-> FALSE, error |-> "arguments must be an object"], 0)
  ELSE LET t == handleRequest(toolName, parameters, f, mdDir)
       IN IF "rejected" \in DOMAIN t.response
          THEN [t EXCEPT !.response =
                  [success |-> FALSE, error |-> t.response.rejected]]
          ELSE t

\* ------------------------------------------------------------------ layout
\* Coordinates are numbers of hundredths of a pixel: a double is modelled by
\* an integer, a hundred times its value rounded down, and the results of
\* Math.cos and Math.sin by thousandths.  positions is the list of the
\* positions of the nodes in the order of the node list (node ids are
\* unique within a graph).

\* Op(value), where value is computed once however often Op uses it
With(value, Op(_)) == CHOOSE result \in {Op(v) : v \in {value}} : TRUE

\* Math.sqrt: the largest r with r * r <= n, by Newton's iteration from a
\* guess x >= r
RECURSIVE Sqrt(_, _)
Sqrt(n, x) ==
  IF n = 0 THEN 0
  ELSE With((x + n \div x) \div 2,
            LAMBDA y : IF y >= x THEN x ELSE Sqrt(n, y))

\* Math.cos and Math.sin of 2 * Math.PI * i / nodeCount, in thousandths, for
\* lists of at most four nodes
Circle(i, nodeCount) ==
  IF i = 0 THEN [cos |-> 1000, sin |-> 0]
  ELSE IF 2 * i = nodeCount THEN [cos |-> -1000, sin |-> 0]
  ELSE IF 3 * i = nodeCount THEN [cos |-> -500, sin |-> 866]
  ELSE IF 3 * i = 2 * nodeCount THEN [cos |-> -500, sin |-> -866]
  ELSE IF 4 * i = nodeCount THEN [cos |-> 0, sin |-> 1000]
  ELSE [cos |-> 0, sin |-> -1000]

\* Math.max(lowest, Math.min(highest, value))
Clamp(lowest, highest, value) ==
  With(IF highest < value THEN highest ELSE value,
       LAMBDA least : IF least < lowest THEN lowest ELSE least)

\* the positions on the circle around the centre of the canvas, the first
\* node at the angle of `first` steps
InitialPositions(nodes, settings, first) ==
  LET nodeCount == Len(nodes)
      centerX == (100 * settings.width) \div 2
      centerY == (100 * settings.height) \div 2
      radius == 40 * (IF settings.width < settings.height THEN settings.width
                      ELSE settings.height)
      Initial[i \in 0..nodeCount] ==
        IF i = 0 THEN <<>>
        ELSE LET angle == Circle((first + i - 1) % nodeCount, nodeCount)
             IN Append(Initial[i - 1],
                       [x |-> centerX + (radius * angle.cos) \div 1000,
                        y |-> centerY + (radius * angle.sin) \div 1000])
  IN Initial[nodeCount]

\* One round of the loop of calculateNodePositions: the forces on every node
\* from the positions before the round, then the move with damping and the
\* boundary constraint.
LayoutRound(positions, nodes, edges, settings) ==
  LET nodeCount == Len(nodes)
      centerX == (100 * settings.width) \div 2
      centerY == (100 * settings.height) \div 2
      radius == 40 * (IF settings.width < settings.height THEN settings.width
                      ELSE settings.height)
      repulsionForce == 10000 \div nodeCount
      Of(id) == FindIndex(nodes, LAMBDA n : n.id = id)
      None == [fx |-> 0, fy |-> 0]
      Plus(f, g) == [fx |-> f.fx + g.fx, fy |-> f.fy + g.fy]
      Times(sign, f) == [fx |-> sign * f.fx, fy |-> sign * f.fy]
      \* (dx / distance) * force and (dy / distance) * force
      Along(dx, dy, distance, force) ==
        [fx |-> (dx * force) \div distance, fy |-> (dy * force) \div distance]
      Abs(d) == IF d < 0 THEN 0 - d ELSE d
      \* Math.sqrt(dx * dx + dy * dy)
      Distance(dx, dy) == Sqrt(dx * dx + dy * dy, Abs(dx) + Abs(dy))
      \* Math.max(1, d)
      OneAtLeast(d) == IF d < 100 THEN 100 ELSE d
      \* the force of the pair (j, k) on node k; node j gets the opposite
      Repulsion(j, k) ==
        LET dx == positions[k].x - positions[j].x
            dy == positions[k].y - positions[j].y
        IN With(Distance(dx, dy),
                LAMBDA d :
                  LET distance == OneAtLeast(d)
                  IN Along(dx, dy, distance,
                           (100 * repulsionForce)
                             \div ((distance * distance) \div 10000)))
      \* the force of edge e on its source; its target gets the opposite
      Attraction(e) ==
        LET s == Of(edges[e].source)
            t == Of(edges[e].target)
            dx == positions[t].x - positions[s].x
            dy == positions[t].y - positions[s].y
        IN IF s = 0 \/ t = 0 THEN None
           ELSE With(Distance(dx, dy),
                     LAMBDA d : Along(dx, dy, OneAtLeast(d), OneAtLeast(d) \div 30))
      Centering(i) ==
        LET dx == centerX - positions[i].x
            dy == centerY - positions[i].y
        IN With(Distance(dx, dy),
                LAMBDA distance :
                  IF distance > radius
                  THEN Along(dx, dy, distance, (distance - radius) \div 10)
                  ELSE None)
      Pair(i, k) ==
        IF k < i THEN Repulsion(k, i)
        ELSE IF i < k THEN With(Repulsion(i, k), LAMBDA f : Times(-1, f))
        ELSE None
      Pull(i, e) ==
        LET sign == (IF Of(edges[e].source) = i THEN 1 ELSE 0)
                      - (IF Of(edges[e].target) = i THEN 1 ELSE 0)
        IN IF sign = 0 THEN None
           ELSE With(Attraction(e), LAMBDA f : Times(sign, f))
      Force(i) ==
        LET R[k \in 0..nodeCount] ==
              IF k = 0 THEN None
              ELSE With(<<R[k - 1], Pair(i, k)>>, LAMBDA s : Plus(s[1], s[2]))
            A[e \in 0..Len(edges)] ==
              IF e = 0 THEN None
              ELSE With(<<A[e - 1], Pull(i, e)>>, LAMBDA s : Plus(s[1], s[2]))
        IN With(<<R[nodeCount], A[Len(edges)], Centering(i)>>,
                LAMBDA s : Plus(s[1], Plus(s[2], s[3])))
      Moved[i \in 0..nodeCount] ==
        IF i = 0 THEN <<>>
        ELSE With(Force(i), LAMBDA force :
               Append(Moved[i - 1],
                 [x |-> Clamp(100 * settings.nodeRadius,
                              100 * (settings.width - settings.nodeRadius),
                              positions[i].x + (9 * force.fx) \div 10),
                  y |-> Clamp(100 * settings.nodeRadius,
                              100 * (settings.height - settings.nodeRadius),
                              positions[i].y + (9 * force.fy) \div 10)]))
  IN Moved[nodeCount]

\* `iterations` rounds of the loop, from the given positions: the first
\* half of the rounds, then the others from their result
RECURSIVE LayoutRounds(_, _, _, _, _)
LayoutRounds(positions, nodes, edges, settings, iterations) ==
  IF iterations = 0 THEN positions
  ELSE IF iterations = 1 THEN LayoutRound(positions, nodes, edges, settings)
  ELSE With(LayoutRounds(positions, nodes, edges, settings, iterations \div 2),
            LAMBDA half : LayoutRounds(half, nodes, edges, settings,
                                       iterations - iterations \div 2))

\* a layout whose circle starts at an angle taken from the clock
calculateNodePositions_Clock(nodes, edges, settings) ==
  IF Len(nodes) = 0 THEN <<>>
  ELSE With(InitialPositions(nodes, settings, now),
            LAMBDA initial : LayoutRounds(initial, nodes, edges, settings, 50))

\* calculateNodePositions(nodes, edges, width, height), with the settings of
\* the SvgService: the positions on the circle, then the rounds
calculateNodePositions(nodes, edges, settings) ==
  IF Len(nodes) = 0 THEN <<>>
  ELSE With(InitialPositions(nodes, settings, 0),
            LAMBDA initial : LayoutRounds(initial, nodes, edges, settings, 50))

\* ------------------------------------------------------------------ inputs

\* an id that randomUUID() never returns within the bounds
MissingId == ResIdBase - 1

\* the graphs a call can find: in the registry, or in the snapshot it reloads
KnownGraphs == Range(graphs) \cup Range(ReloadData(disk.graphs))

GraphIdArgs == {g.id : g \in KnownGraphs} \cup {MissingId}
NodeIdArgs == UNION {{n.id : n \in Range(g.nodes)} : g \in KnownGraphs}
                \cup {MissingId}
EdgeIdArgs == UNION {{e.id : e \in Range(g.edges)} : g \in KnownGraphs}
                \cup {MissingId}
ResourceIdArgs == UNION {{r.id : r \in Range(g.resources)} : g \in KnownGraphs}
                    \cup {MissingId}

\* the failures that can show in a call: of init() before the first
\* initialisation, of loadGraphs() when reloadData runs, of the snapshot
\* write when persistChanges writes; `artifact` says whether the call
\* stores an artifact
FaultArgs(artifact) ==
  {f \in Faults :
     /\ f # NoFaults => ioFailures < MaxFaults
     /\ ~f.init => ~initialized /\ config.fileService
     /\ ~f.load => config.fileService /\ (~initialized \/ Len(graphs) = 0)
                     /\ disk.hasGraphs
     /\ f.write # "ok" => Persists
     /\ ~f.artifact => artifact /\ config.fileService}

\* a file system that does not fail
Reliable == {NoFaults}

\* the calls of fs succeed, or writeFile of graph.json fails
WriteFaults == {NoFaults, [NoFaults EXCEPT !.write = "fail"]}

\* the ids of the archived graphs of the registry gs
ArchivedIds(gs) == {gs[k].id : k \in {j \in 1..Len(gs) : gs[j].status = "archived"}}

\* One call whose outcome is o; o0 is its outcome when the file system does
\* not fail, so that o # o0 says that a failure showed
Call(o, o0) ==
  \E r \in {o} : \E failed \in {r # o0} :
    /\ failed => ioFailures < MaxFaults
    /\ graphs' = r.graphs
    /\ initialized' = r.initialized
    /\ disk' = r.disk
    /\ nextId' = nextId + r.ids
    /\ ioFailures' = IF failed THEN ioFailures + 1 ELSE ioFailures
    /\ wasArchived' = wasArchived \cup ArchivedIds(r.graphs)
    /\ UNCHANGED <<config, now, inFlight, errorLog>>

\* the registry gs and the id counter stay within the given bounds
Within(gs, id, maxGraphs, maxNodes, maxEdges, maxResources, maxIds) ==
  /\ id <= maxIds + 1
  /\ Len(gs) <= maxGraphs
  /\ \A k \in 1..Len(gs) :
       /\ Len(gs[k].nodes) <= maxNodes
       /\ Len(gs[k].edges) <= maxEdges
       /\ Len(gs[k].resources) <= maxResources

StoreBounds ==
  /\ Within(graphs, nextId, MaxGraphs, MaxNodes, MaxEdges, MaxResources, MaxIds)
  /\ Cardinality(disk.files) <= MaxFiles

GraphBounds ==
  Within(graphs, nextId, GraphMaxGraphs, GraphMaxNodes, GraphMaxEdges, 0,
         GraphMaxIds)

ResourceBounds ==
  /\ Within(graphs, nextId, 1, ResMaxNodes, 0, ResMaxResources, ResMaxIds)
  /\ Cardinality(disk.files) <= ResMaxFiles

\* ----------------------------------------------------------------- actions
\* One action per method; the parameters are the sets its arguments and the
\* behaviour of the file system are drawn from.
CreateGraph(names, types, F) ==
  \E name \in names, type \in types, f \in F :
    Call(createGraph(name, type, Undef, f), createGraph(name, type, Undef, NoFaults))

GetGraph(F) ==
  \E id \in GraphIdArgs, f \in F :
    Call(getGraph(id, f), getGraph(id, NoFaults))

UpdateGraph(names, F) ==
  \E id \in GraphIdArgs, name \in names, f \in F :
    Call(updateGraph(id, name, Undef, f), updateGraph(id, name, Undef, NoFaults))

PublishGraph(F) ==
  \E id \in GraphIdArgs, f \in F :
    Call(publishGraph(id, f), publishGraph(id, NoFaults))

ArchiveGraph(F) ==
  \E id \in GraphIdArgs, f \in F :
    Call(archiveGraph(id, f), archiveGraph(id, NoFaults))

DeleteGraph(F) ==
  \E id \in GraphIdArgs, f \in F :
    Call(deleteGraph(id, f), deleteGraph(id, NoFaults))

AddNode(types, names, F) ==
  \E id \in GraphIdArgs, type \in types, name \in names, f \in F :
    Call(addNode(id, type, name, Undef, Undef, Undef, f),
         addNode(id, type, name, Undef, Undef, Undef, NoFaults))

UpdateNode(names, F) ==
  \E id \in GraphIdArgs, nodeId \in NodeIdArgs, name \in names, f \in F :
    Call(updateNode(id, nodeId, name, Undef, Undef, Undef, f),
         updateNode(id, nodeId, name, Undef, Undef, Undef, NoFaults))

DeleteNode(F) ==
  \E id \in GraphIdArgs, nodeId \in NodeIdArgs, f \in F :
    Call(deleteNode(id, nodeId, f), deleteNode(id, nodeId, NoFaults))

AddEdge(types, F) ==
  \E id \in GraphIdArgs, type \in types, source \in NodeIdArgs,
     target \in NodeIdArgs, f \in F :
    Call(addEdge(id, type, source, target, Undef, Undef, Undef, f),
         addEdge(id, type, source, target, Undef, Undef, Undef, NoFaults))

UpdateEdge(labels, F) ==
  \E id \in GraphIdArgs, edgeId \in EdgeIdArgs, label \in labels, f \in F :
    Call(updateEdge(id, edgeId, label, Undef, Undef, f),
         updateEdge(id, edgeId, label, Undef, Undef, NoFaults))

DeleteEdge(F) ==
  \E id \in GraphIdArgs, edgeId \in EdgeIdArgs, f \in F :
    Call(deleteEdge(id, edgeId, f), deleteEdge(id, edgeId, NoFaults))

AddResource(names, types, F) ==
  \E id \in GraphIdArgs, name \in names, type \in types, f \in F :
    Call(addResource(id, name, type, Undef, f),
         addResource(id, name, type, Undef, NoFaults))

LinkResourceToNode(F) ==
  \E id \in GraphIdArgs, nodeId \in NodeIdArgs, resourceId \in ResourceIdArgs,
     f \in F :
    Call(linkResourceToNode(id, nodeId, resourceId, f),
         linkResourceToNode(id, nodeId, resourceId, NoFaults))

UnlinkResourceFromNode(F) ==
  \E id \in GraphIdArgs, nodeId \in NodeIdArgs, resourceId \in ResourceIdArgs,
     f \in F :
    Call(unlinkResourceFromNode(id, nodeId, resourceId, f),
         unlinkResourceFromNode(id, nodeId, resourceId, NoFaults))

SaveMdToGraph(titles, F) ==
  \E id \in GraphIdArgs, nodeId \in NodeIdArgs \cup {NoId}, title \in titles,
     f \in F :
    Call(saveMdToGraph(id, nodeId, title, "", f),
         saveMdToGraph(id, nodeId, title, "", NoFaults))

SaveSvgToNode(titles, F) ==
  \E id \in GraphIdArgs, nodeId \in NodeIdArgs, title \in titles,
     validSvg \in BOOLEAN, f \in F :
    Call(saveSvgToNode(id, nodeId, title, "", validSvg, f),
         saveSvgToNode(id, nodeId, title, "", validSvg, NoFaults))

UpdateGraphSvg(F) ==
  \E id \in GraphIdArgs, validSvg \in BOOLEAN, f \in F :
    Call(updateGraphSvg(id, validSvg, f), updateGraphSvg(id, validSvg, NoFaults))

\* the calls that store an artifact, with the content they are given
PublishGraphContent ==
  \E id \in GraphIdArgs, g \in KnownGraphs :
    /\ g.id = id
    /\ Call(Saved(publishGraph(id, NoFaults), GeneratedSvg(g)),
            Saved(publishGraph(id, NoFaults), GeneratedSvg(g)))

SaveMdContent(titles, contents) ==
  \E id \in GraphIdArgs, nodeId \in NodeIdArgs \cup {NoId}, title \in titles,
     content \in contents :
    Call(Saved(saveMdToGraph(id, nodeId, title, "", NoFaults), content),
         Saved(saveMdToGraph(id, nodeId, title, "", NoFaults), content))

SaveSvgContent(titles, contents) ==
  \E id \in GraphIdArgs, nodeId \in NodeIdArgs, title \in titles,
     svgContent \in contents :
    Call(Saved(saveSvgToNode(id, nodeId, title, "", TRUE, NoFaults), svgContent),
         Saved(saveSvgToNode(id, nodeId, title, "", TRUE, NoFaults), svgContent))

UpdateSvgContent(contents) ==
  \E id \in GraphIdArgs, svgContent \in contents :
    Call(Saved(updateGraphSvg(id, TRUE, NoFaults), svgContent),
         Saved(updateGraphSvg(id, TRUE, NoFaults), svgContent))

UpdateResource(names, F) ==
  \E id \in GraphIdArgs, resourceId \in ResourceIdArgs, name \in names, f \in F :
    Call(updateResource(id, resourceId, name, Undef, Undef, f),
         updateResource(id, resourceId, name, Undef, Undef, NoFaults))

DeleteResource(F) ==
  \E id \in GraphIdArgs, resourceId \in ResourceIdArgs, f \in F :
    Call(deleteResource(id, resourceId, f), deleteResource(id, resourceId, NoFaults))

ImportFromComponentAnalysis(F) ==
  \E id \in GraphIdArgs, f \in F :
    Call(importFromComponentAnalysis(id, f),
         importFromComponentAnalysis(id, NoFaults))

\* the clock advances
Tick ==
  /\ now < MaxClock
  /\ now' = now + 1
  /\ UNCHANGED <<graphs, initialized, config, disk, nextId, ioFailures,
                 inFlight, errorLog, wasArchived>>

\* A call that overlaps others.  It runs without suspension from the lookup
\* of the graph to JSON.stringify in writeJsonFile, where it leaves the
\* registry changed and is suspended in `await fs.writeFile`; o is the
\* outcome of the call on the registry as it is at that moment.
Suspend(o) ==
  /\ initialized /\ Persists
  /\ o.result = "ok"
  /\ Cardinality(inFlight) < MaxInFlight
  /\ graphs' = o.graphs
  /\ nextId' = nextId + o.ids
  /\ inFlight' = inFlight \cup {o.disk.graphs}
  /\ wasArchived' = wasArchived \cup ArchivedIds(o.graphs)
  /\ UNCHANGED <<initialized, config, disk, now, ioFailures, errorLog>>

UpdateGraphSuspends(names) ==
  \E id \in GraphIdArgs, name \in names :
    Suspend(updateGraph(id, name, Undef, NoFaults))

AddNodeSuspends(types, names) ==
  \E id \in GraphIdArgs, type \in types, name \in names :
    Suspend(addNode(id, type, name, Undef, Undef, Undef, NoFaults))

\* fs.writeFile of one of the suspended calls completes and the call returns;
\* the writes of overlapping calls complete in any order
WriteCompletes ==
  /\ \E json \in inFlight :
       /\ disk' = [disk EXCEPT !.hasGraphs = TRUE, !.graphs = json]
       /\ inFlight' = inFlight \ {json}
  /\ UNCHANGED <<graphs, initialized, config, now, nextId, ioFailures,
                 errorLog, wasArchived>>

\* A call (listGraphs) enters ensureInitialized() while the service is not
\* initialized or the map is empty, graph.json exists, and the call is
\* suspended in `await fs.readFile` of loadGraphs with the content the file
\* has at that moment.
ReloadSuspends ==
  /\ config.fileService
  /\ ~initialized \/ Len(graphs) = 0
  /\ disk.hasGraphs
  /\ Cardinality(inFlight) < MaxInFlight
  /\ inFlight' = inFlight \cup {disk.graphs}
  /\ UNCHANGED <<graphs, initialized, config, disk, now, nextId, ioFailures,
                 errorLog, wasArchived>>

\* fs.readFile of one of the suspended calls completes: reloadData clears the
\* map and fills it from what was read, init() sets initialized, and the
\* call goes on to read the map
ReloadResumes ==
  /\ \E data \in inFlight :
       /\ graphs' = ReloadData(data)
       /\ inFlight' = inFlight \ {data}
       /\ wasArchived' = wasArchived \cup ArchivedIds(ReloadData(data))
  /\ initialized' = TRUE
  /\ UNCHANGED <<config, disk, now, nextId, ioFailures, errorLog>>

\* Calls of addNode that overlap, each by a caller `call`.  A call in flight
\* is suspended in `await fs.readFile` of loadGraphs (at = "read", data is
\* what it has read) or in `await fs.writeFile` of updateGraphFile
\* (at = "write", data is what it is writing).

\* the call enters ensureInitialized() while the service is not initialized
\* or the map is empty, and graph.json exists
AddNodeReads(types, names) ==
  \E call \in 1..MaxInFlight, graphId \in GraphIdArgs, type \in types,
     name \in names :
    /\ \A e \in inFlight : e.call # call
    /\ config.fileService /\ disk.hasGraphs
    /\ ~initialized \/ Len(graphs) = 0
    /\ inFlight' = inFlight \cup
                     {[call |-> call, at |-> "read", graphId |-> graphId,
                       type |-> type, name |-> name, data |-> disk.graphs]}
    /\ UNCHANGED <<graphs, initialized, config, disk, now, nextId, ioFailures,
                   errorLog, wasArchived>>

\* The call e runs on the registry gs from the end of ensureInitialized() to
\* fs.writeFile, where it is suspended, or to the throw: the awaits in
\* between (getGraph) wait for no I/O.
AddNodeAppends(e, gs) ==
  \E o \in {AppendNode(gs, e.graphId, e.type, e.name, Undef, Undef, Undef,
                       NoFaults)} :
    /\ graphs' = o.graphs
    /\ initialized' = TRUE
    /\ nextId' = nextId + o.ids
    /\ inFlight' = (inFlight \ {e}) \cup
                     IF o.result = "ok" /\ Persists
                     THEN {[e EXCEPT !.at = "write", !.data = o.disk.graphs]}
                     ELSE {}
    /\ wasArchived' = wasArchived \cup ArchivedIds(o.graphs)
    /\ UNCHANGED <<config, disk, now, ioFailures, errorLog>>

\* fs.readFile of a suspended call completes: reloadData replaces the map by
\* what was read and the call goes on
AddNodeResumes ==
  \E e \in inFlight : e.at = "read" /\ AddNodeAppends(e, ReloadData(e.data))

\* a call that reads no file in ensureInitialized()
AddNodeStarts(types, names) ==
  \E call \in 1..MaxInFlight, graphId \in GraphIdArgs, type \in types,
     name \in names :
    /\ \A e \in inFlight : e.call # call
    /\ ~(config.fileService /\ disk.hasGraphs
          /\ (~initialized \/ Len(graphs) = 0))
    /\ AddNodeAppends([call |-> call, at |-> "read", graphId |-> graphId,
                       type |-> type, name |-> name, data |-> <<>>], graphs)

\* fs.writeFile of a suspended call completes and the call returns its node
AddNodeReturns ==
  \E e \in inFlight :
    /\ e.at = "write"
    /\ disk' = [disk EXCEPT !.hasGraphs = TRUE, !.graphs = e.data]
    /\ inFlight' = inFlight \ {e}
    /\ UNCHANGED <<graphs, initialized, config, now, nextId, ioFailures,
                   errorLog, wasArchived>>

\* a request: the tool named, its arguments (an object or not), what fs
\* does during the call and whether the directory md exists
Request(toolName, isObject, parameters, f, mdDir) ==
  [toolName |-> toolName, isObject |-> isObject, parameters |-> parameters,
   f |-> f, mdDir |-> mdDir]

\* the arguments of a delete tool: confirmDelete true, false or missing
ConfirmArgs(parameters) ==
  {parameters} \cup {parameters @@ [confirmDelete |-> c] : c \in BOOLEAN}

CreateGraphTool(names, types, F) ==
  {Request("create_graph", TRUE, [name |-> name, type |-> type], f, TRUE) :
     name \in names, type \in types, f \in F}

AddNodeTool(types, names, F) ==
  {Request("add_node", TRUE, [graphId |-> id, type |-> type, name |-> name],
           f, TRUE) :
     id \in GraphIdArgs, type \in types, name \in names, f \in F}

DeleteNodeTool(F) ==
  UNION {{Request("delete_node", TRUE, parameters, f, TRUE) :
            parameters \in ConfirmArgs([graphId |-> id, nodeId |-> nodeId])} :
           id \in GraphIdArgs, nodeId \in NodeIdArgs, f \in F}

DeleteEdgeTool(F) ==
  UNION {{Request("delete_edge", TRUE, parameters, f, TRUE) :
            parameters \in ConfirmArgs([graphId |-> id, edgeId |-> edgeId])} :
           id \in GraphIdArgs, edgeId \in EdgeIdArgs, f \in F}

DeleteResourceTool(F) ==
  UNION {{Request("delete_resource", TRUE, parameters, f, TRUE) :
            parameters \in ConfirmArgs([graphId |-> id,
                                        resourceId |-> resourceId])} :
           id \in GraphIdArgs, resourceId \in ResourceIdArgs, f \in F}

\* requests that name no tool of the switch, or whose arguments are not an
\* object
BadRequest ==
  {Request("no_such_tool", isObject, [graphId |-> MissingId], NoFaults, mdDir) :
     isObject \in BOOLEAN, mdDir \in BOOLEAN}

\* The CallToolRequestSchema handler answers a request: the calls of the
\* service it made and the entries it appended to md/error_log.txt.
ToolCall(requests) ==
  \E request \in requests :
    \E t \in {CallTool(request.toolName, request.isObject, request.parameters,
                       request.f, request.mdDir)} :
       /\ request.f # NoFaults => ioFailures < MaxFaults
       /\ graphs' = t.o.graphs
       /\ initialized' = t.o.initialized
       /\ disk' = t.o.disk
       /\ nextId' = nextId + t.o.ids
       /\ ioFailures' = IF request.f # NoFaults THEN ioFailures + 1 ELSE ioFailures
       /\ errorLog' = errorLog + t.logged
       /\ wasArchived' = wasArchived \cup ArchivedIds(t.o.graphs)
       /\ UNCHANGED <<config, now, inFlight>>

\* the process ends and a new one constructs the service on the same
\* directory: an empty map, not initialized
Restart ==
  /\ graphs' = <<>>
  /\ initialized' = FALSE
  /\ UNCHANGED <<config, disk, now, nextId, ioFailures, inFlight, errorLog,
                 wasArchived>>

\* ---------------------------------------------------------- specifications
\* the state after construction: an empty map, no snapshot on disk yet
Init ==
  /\ graphs = <<>>
  /\ initialized = FALSE
  /\ config \in [fileService : BOOLEAN, generateSvg : BOOLEAN, autoPersist : BOOLEAN]
  /\ disk = [hasGraphs |-> FALSE, graphs |-> <<>>, files |-> {}]
  /\ now = 0
  /\ nextId = 1
  /\ ioFailures = 0
  /\ inFlight = {}
  /\ errorLog = 0
  /\ wasArchived = {}

\* The whole store on a file system that does not fail, within one tick of
\* the clock: every method, on graphs that hold at most one node "A"
StoreCalls ==
  \/ CreateGraph({"", "Sys"}, {Undef, "mindmap"}, Reliable)
  \/ GetGraph(Reliable)
  \/ UpdateGraph({"Kb"}, Reliable)
  \/ PublishGraph(Reliable)
  \/ ArchiveGraph(Reliable)
  \/ DeleteGraph(Reliable)
  \/ AddNode({"component", "event"}, {"A"}, Reliable)
  \/ UpdateNode({Undef}, Reliable)
  \/ DeleteNode(Reliable)
  \/ AddEdge({"depends_on", "precedes"}, Reliable)
  \/ UpdateEdge({"l"}, Reliable)
  \/ DeleteEdge(Reliable)
  \/ AddResource({"R"}, {"md"}, Reliable)
  \/ LinkResourceToNode(Reliable)
  \/ UnlinkResourceFromNode(Reliable)
  \/ SaveMdToGraph({"R"}, Reliable)
  \/ SaveSvgToNode({"R"}, Reliable)
  \/ UpdateGraphSvg(Reliable)
  \/ UpdateResource({"R"}, Reliable)
  \/ DeleteResource(Reliable)
  \/ ImportFromComponentAnalysis(Reliable)

Next == StoreCalls /\ StoreBounds'

Spec == Init /\ [][Next]_vars

\* The life cycle of a graph on a file system that can fail, with a clock
\* that advances
FaultyCalls ==
  \/ CreateGraph({"Sys"}, {Undef}, FaultArgs(FALSE))
  \/ GetGraph(FaultArgs(FALSE))
  \/ UpdateGraph({"Kb"}, FaultArgs(FALSE))
  \/ PublishGraph(FaultArgs(TRUE))
  \/ ArchiveGraph(FaultArgs(FALSE))
  \/ DeleteGraph(FaultArgs(FALSE))
  \/ AddNode({"component"}, {"A"}, FaultArgs(FALSE))
  \/ Tick

NextFaults == FaultyCalls /\ StoreBounds'

SpecFaults == Init /\ [][NextFaults]_vars

\* The node and edge methods of a store without file service: topology
\* graphs, two node names, two edge kinds
GraphCalls ==
  \/ CreateGraph({"Sys"}, {Undef}, Reliable)
  \/ AddNode({"component"}, {"A", "B"}, Reliable)
  \/ UpdateNode({"A", "B"}, Reliable)
  \/ DeleteNode(Reliable)
  \/ AddEdge({"depends_on", "calls"}, Reliable)
  \/ UpdateEdge({"l"}, Reliable)
  \/ DeleteEdge(Reliable)

NextGraph == GraphCalls /\ GraphBounds'

\* the state after `new KnowledgeGraphService()`: no graphDir, no file service
InitMemory ==
  /\ Init
  /\ config = [fileService |-> FALSE, generateSvg |-> TRUE, autoPersist |-> TRUE]

SpecGraph == InitMemory /\ [][NextGraph]_vars

\* Graphs of every kind in a store without file service, with nodes and edges
\* of kinds taken from each of the allow-lists
KindsCalls ==
  \/ CreateGraph({"Sys"}, GraphType \cup {Undef}, Reliable)
  \/ ArchiveGraph(Reliable)
  \/ AddNode({"component", "event", "change", "requirement", "concept",
              "person"}, {"A"}, Reliable)
  \/ AddEdge({"depends_on", "precedes", "part_of", "extends",
              "implements_req", "created_by"}, Reliable)

NextKinds == KindsCalls /\ StoreBounds'

SpecKinds == InitMemory /\ [][NextKinds]_vars

\* the state after `new KnowledgeGraphService(config)` with a graphDir, SVG
\* generation and automatic persistence (config/environment.ts)
InitFiles ==
  /\ Init
  /\ config = [fileService |-> TRUE, generateSvg |-> TRUE, autoPersist |-> TRUE]

\* One graph with its nodes and resources, through its life cycle, on a file
\* system that does not fail
ResourceCalls ==
  \/ CreateGraph({"Sys"}, {Undef}, Reliable)
  \/ PublishGraph(Reliable)
  \/ ArchiveGraph(Reliable)
  \/ AddNode({"component"}, {"A"}, Reliable)
  \/ DeleteNode(Reliable)
  \/ AddResource({"R"}, {"png"}, Reliable)
  \/ LinkResourceToNode(Reliable)
  \/ SaveMdToGraph({"M"}, Reliable)
  \/ DeleteResource(Reliable)

NextResources == ResourceCalls /\ ResourceBounds'

SpecResources == InitFiles /\ [][NextResources]_vars

\* A store that starts on a graph.json holding one graph with one node, which
\* the snapshot names as the root node or not (rootNodeId is a field of Graph
\* that reloadData keeps; no method of the service writes it)
InitSnapshot ==
  /\ graphs = <<>>
  /\ initialized = FALSE
  /\ config = [fileService |-> TRUE, generateSvg |-> TRUE, autoPersist |-> TRUE]
  /\ \E root \in {NoId, 2} :
       disk = [hasGraphs |-> TRUE,
               graphs |-> Stringify(
                            <<[Create(1, "Sys", "topology", Undef, 0) EXCEPT
                                 !.rootNodeId = root,
                                 !.nodes = <<CreateNode(2, "component", "A",
                                               Undef, Undef, Undef, 0)>>]>>),
               files |-> {}]
  /\ now = 0
  /\ nextId = 3
  /\ ioFailures = 0
  /\ inFlight = {}
  /\ errorLog = 0
  /\ wasArchived = {}

\* the node and edge methods on the loaded graph
RootCalls ==
  \/ GetGraph(Reliable)
  \/ AddNode({"component"}, {"B", "C"}, Reliable)
  \/ UpdateNode({"D"}, Reliable)
  \/ DeleteNode(Reliable)
  \/ AddEdge({"depends_on", "calls"}, Reliable)
  \/ DeleteEdge(Reliable)

NextRoot == RootCalls /\ GraphBounds'

SpecRoot == InitSnapshot /\ [][NextRoot]_vars

\* Graphs and nodes on a file system whose reads and writes can fail, with
\* the reads of the graph in between
PersistCalls ==
  \/ CreateGraph({"Sys"}, {Undef}, FaultArgs(FALSE))
  \/ GetGraph(FaultArgs(FALSE))
  \/ UpdateGraph({"Kb"}, FaultArgs(FALSE))
  \/ ArchiveGraph(FaultArgs(FALSE))
  \/ AddNode({"component"}, {"A", "B"}, FaultArgs(FALSE))
  \/ DeleteNode(FaultArgs(FALSE))

NextPersist == PersistCalls /\ StoreBounds'

SpecPersist == InitFiles /\ [][NextPersist]_vars

\* One graph with a node, an edge and a resource, written to graph.json by
\* every call and loaded again by the process that follows
SnapshotBounds ==
  /\ Within(graphs, nextId, 1, ResMaxNodes, ResMaxNodes, ResMaxResources,
            ResMaxIds + 1)
  /\ Cardinality(disk.files) <= ResMaxFiles

SnapshotCalls ==
  \/ CreateGraph({"Sys"}, {Undef}, Reliable)
  \/ GetGraph(Reliable)
  \/ PublishGraph(Reliable)
  \/ ArchiveGraph(Reliable)
  \/ AddNode({"component"}, {"A"}, Reliable)
  \/ AddEdge({"depends_on"}, Reliable)
  \/ Tick
  \/ Restart

NextSnapshot == SnapshotCalls /\ SnapshotBounds'

SpecSnapshot == InitFiles /\ [][NextSnapshot]_vars

\* A graph without file service that is published at some time, and the
\* node and edge methods on it before and after
PublishedCalls ==
  \/ CreateGraph({"Sys"}, {Undef}, Reliable)
  \/ PublishGraph(Reliable)
  \/ AddNode({"component"}, {"A", "B"}, Reliable)
  \/ UpdateNode({"B"}, Reliable)
  \/ DeleteNode(Reliable)
  \/ AddEdge({"depends_on"}, Reliable)
  \/ UpdateEdge({"l"}, Reliable)
  \/ DeleteEdge(Reliable)
  \/ Tick

NextPublished == PublishedCalls /\ StoreBounds'

SpecPublished == InitMemory /\ [][NextPublished]_vars

\* One graph whose calls overlap: createGraph runs alone, updateGraph and
\* addNode are called while earlier calls are suspended in their write
OverlapCalls ==
  \/ CreateGraph({"Sys"}, {Undef}, Reliable) /\ inFlight = {}
  \/ UpdateGraphSuspends({"Sys", "Kb"})
  \/ AddNodeSuspends({"component"}, {"A"})
  \/ WriteCompletes
  \/ Tick

NextOverlap == OverlapCalls /\ StoreBounds'

SpecOverlap == InitFiles /\ [][NextOverlap]_vars

\* The tool server on a service with files and autoPersist.  add_edge and
\* save_resource hand their arguments to addEdge and addResource.
ToolBounds ==
  /\ Within(graphs, nextId, MaxGraphs, MaxNodes, MaxEdges, MaxResources, MaxIds + 1)
  /\ Cardinality(disk.files) <= MaxFiles
  /\ errorLog <= MaxLog

ToolCalls ==
  \/ ToolCall(CreateGraphTool({"Sys", ""}, {Undef, "mindmap"}, Reliable)
                \cup AddNodeTool({"component", "nonsense"}, {"A"}, WriteFaults)
                \cup DeleteNodeTool(Reliable)
                \cup DeleteEdgeTool(Reliable)
                \cup DeleteResourceTool(Reliable)
                \cup BadRequest)
  \/ AddEdge({"depends_on"}, Reliable)
  \/ AddResource({"R"}, {"png"}, Reliable)

NextTools == ToolCalls /\ ToolBounds'

SpecTools == InitFiles /\ [][NextTools]_vars

\* Two nodes that share the resources of one graph
LinkBounds ==
  /\ Within(graphs, nextId, 1, GraphMaxNodes, 0, ResMaxResources, GraphMaxIds)
  /\ Cardinality(disk.files) <= ResMaxFiles

LinkCalls ==
  \/ CreateGraph({"Sys"}, {Undef}, Reliable)
  \/ AddNode({"component"}, {"A", "B"}, Reliable)
  \/ AddResource({"R"}, {"png"}, Reliable)
  \/ LinkResourceToNode(Reliable)
  \/ UnlinkResourceFromNode(Reliable)
  \/ Tick

NextLinks == LinkCalls /\ LinkBounds'

SpecLinks == InitFiles /\ [][NextLinks]_vars

\* Graphs of two kinds in a store without file service, published or not,
\* whose nodes and edges are added and deleted
ListCalls ==
  \/ CreateGraph({"Sys"}, {"topology", "timeline"}, Reliable)
  \/ PublishGraph(Reliable)
  \/ AddNode({"component", "event"}, {"A"}, Reliable)
  \/ DeleteNode(Reliable)
  \/ AddEdge({"depends_on"}, Reliable)
  \/ DeleteEdge(Reliable)

SpecList ==
  /\ InitMemory
  /\ [][/\ ListCalls
        /\ Within(graphs', nextId', GraphMaxGraphs, MaxNodes, MaxEdges, 0,
                  GraphMaxIds)]_vars

\* the settings of the SvgService (config/environment.ts): any numbers pass
\* the schema; these are canvases of at most 200 pixels
SvgSettings == [width : {100, 200}, height : {100}, nodeRadius : {20, 60}]

\* the state after `new KnowledgeGraphService(config)` without graphDir,
\* with SVG settings
InitLayout ==
  /\ graphs = <<>>
  /\ initialized = FALSE
  /\ \E settings \in SvgSettings :
       config = [fileService |-> FALSE, generateSvg |-> TRUE,
                 autoPersist |-> TRUE, svgSettings |-> settings]
  /\ disk = [hasGraphs |-> FALSE, graphs |-> <<>>, files |-> {}]
  /\ now = 0
  /\ nextId = 1
  /\ ioFailures = 0
  /\ inFlight = {}
  /\ errorLog = 0
  /\ wasArchived = {}

\* One graph whose nodes and edges are added while the clock advances
LayoutCalls ==
  \/ CreateGraph({"Sys"}, {Undef}, Reliable)
  \/ AddNode({"component"}, {"A", "B"}, Reliable)
  \/ AddEdge({"depends_on"}, Reliable)
  \/ Tick

SpecLayout ==
  /\ InitLayout
  /\ [][/\ LayoutCalls
        /\ Within(graphs', nextId', 1, GraphMaxNodes, MaxEdges, 0,
                  GraphMaxIds)]_vars

\* Calls that find the map empty and reload graph.json while other calls
\* create and delete graphs and the process restarts
ReloadCalls ==
  \/ CreateGraph({"Sys", "Kb"}, {Undef}, Reliable)
  \/ DeleteGraph(Reliable)
  \/ ReloadSuspends
  \/ ReloadResumes
  \/ Restart

SpecReload ==
  /\ InitFiles
  /\ [][/\ ReloadCalls
        /\ Within(graphs', nextId', GraphMaxGraphs, 0, 0, 0, MaxIds)]_vars

\* the state after construction with a graphDir, the contents of the files
\* under resources/ being recorded
InitArtifacts ==
  /\ graphs = <<>>
  /\ initialized = FALSE
  /\ config = [fileService |-> TRUE, generateSvg |-> TRUE, autoPersist |-> TRUE]
  /\ disk = [hasGraphs |-> FALSE, graphs |-> <<>>, files |-> {}, content |-> {}]
  /\ now = 0
  /\ nextId = 1
  /\ ioFailures = 0
  /\ inFlight = {}
  /\ errorLog = 0
  /\ wasArchived = {}

\* One graph with a node, whose SVG and Markdown artifacts are saved with
\* one of two contents while the clock advances
ArtifactCalls ==
  \/ CreateGraph({"Sys"}, {Undef}, Reliable)
  \/ AddNode({"component"}, {"A"}, Reliable)
  \/ PublishGraphContent
  \/ SaveMdContent({"R"}, {"a", "b"})
  \/ SaveSvgContent({"R"}, {"<svg>a", "<svg>b"})
  \/ UpdateSvgContent({"<svg>a", "<svg>b"})
  \/ Tick

SpecArtifacts ==
  /\ InitArtifacts
  /\ [][/\ ArtifactCalls
        /\ Within(graphs', nextId', 1, ResMaxNodes, 0, ResMaxResources,
                  ResMaxIds)
        /\ Cardinality(disk'.files) <= ResMaxFiles]_vars

\* One graph with a node, whose resources are added, saved, linked, unlinked
\* and deleted at one value of the clock
ReferenceCalls ==
  \/ CreateGraph({"Sys"}, {Undef}, Reliable)
  \/ AddNode({"component"}, {"A"}, Reliable)
  \/ DeleteNode(Reliable)
  \/ AddResource({"R"}, {"png"}, Reliable)
  \/ LinkResourceToNode(Reliable)
  \/ UnlinkResourceFromNode(Reliable)
  \/ SaveMdToGraph({"M"}, Reliable)
  \/ SaveSvgToNode({"S"}, Reliable)
  \/ UpdateGraphSvg(Reliable)
  \/ DeleteResource(Reliable)

SpecReferences ==
  /\ InitFiles
  /\ [][/\ ReferenceCalls
        /\ Within(graphs', nextId', 1, ResMaxNodes, 0, ResMaxResources,
                  ResMaxIds)
        /\ Cardinality(disk'.files) <= ResMaxFiles]_vars

\* Calls of addNode with one of two names that overlap on one graph, in a
\* process that can restart when no call is in flight
AddNodeCalls ==
  \/ CreateGraph({"Sys"}, {Undef}, Reliable) /\ inFlight = {}
  \/ Restart /\ inFlight = {}
  \/ AddNodeReads({"component"}, {"A", "B"})
  \/ AddNodeResumes
  \/ AddNodeStarts({"component"}, {"A", "B"})
  \/ AddNodeReturns

SpecAddNode ==
  /\ InitFiles
  /\ [][/\ AddNodeCalls
        /\ Within(graphs', nextId', 1, GraphMaxNodes, 0, 0, GraphMaxIds)]_vars

\* ------------------------------------------------------------------ claims

\* C1: on an archived graph each of addNode, updateNode, deleteNode, addEdge,
\* updateEdge, deleteEdge, addResource and publishGraph fails with
\* ImmutableState, whatever the other arguments are and whatever other
\* precondition is violated as well (the archived check comes first).
C1_ArchivedReportsImmutableState ==
  \A k \in 1..Len(graphs) :
    graphs[k].status = "archived" =>
      LET id == graphs[k].id IN
      /\ \A type \in NodeType, name \in {"A", "B"} :
           addNode(id, type, name, Undef, Undef, Undef, NoFaults).result
             = "ImmutableState"
      /\ \A nodeId \in NodeIdArgs, name \in {Undef, "A", "B"} :
           updateNode(id, nodeId, name, Undef, Undef, Undef, NoFaults).result
             = "ImmutableState"
      /\ \A nodeId \in NodeIdArgs :
           deleteNode(id, nodeId, NoFaults).result = "ImmutableState"
      /\ \A type \in EdgeType, source \in NodeIdArgs, target \in NodeIdArgs :
           addEdge(id, type, source, target, Undef, Undef, Undef, NoFaults).result
             = "ImmutableState"
      /\ \A edgeId \in EdgeIdArgs, label \in {Undef, "l"} :
           updateEdge(id, edgeId, label, Undef, Undef, NoFaults).result
             = "ImmutableState"
      /\ \A edgeId \in EdgeIdArgs :
           deleteEdge(id, edgeId, NoFaults).result = "ImmutableState"
      /\ \A name \in {"R", "S"} :
           addResource(id, name, "md", Undef, NoFaults).result = "ImmutableState"
      /\ publishGraph(id, NoFaults).result = "ImmutableState"

\* C2: once a graph is archived, no call other than deleteGraph changes
\* anything in it: as long as it is in the registry it is the same record
\* (name, description, status, nodes, edges, resources, references,
\* timestamps).
C2_ArchivedGraphFrozen ==
  [][\A k \in 1..Len(graphs) :
       graphs[k].status = "archived" =>
         \A j \in 1..Len(graphs') :
           graphs'[j].id = graphs[k].id => graphs'[j] = graphs[k]]_vars

\* C3: archived is terminal: a graph that was archived is archived in every
\* later state in which a graph with its id is in the registry.
C3_ArchivedIsTerminal ==
  \A k \in 1..Len(graphs) :
    graphs[k].id \in wasArchived => graphs[k].status = "archived"

\* C9: no graph ever holds two resources with the same name.
C9_ResourceNamesUnique ==
  \A k \in 1..Len(graphs) :
    \A i, j \in 1..Len(graphs[k].resources) :
      graphs[k].resources[i].name = graphs[k].resources[j].name => i = j

\* C4: in a non-archived graph of kind G where the name is unused, addNode of
\* kind K succeeds iff K is in the allow-list of G; a successful call appends
\* the node and a rejected call leaves the registry as it was.
C4_NodeKindAllowList ==
  LET all == {"component", "module", "service", "data", "api", "concept",
              "resource", "event", "change", "requirement", "feature",
              "iteration", "decision", "person"}
      allowed ==
        [topology |-> {"component", "module", "service", "data", "api",
                       "resource", "concept"},
         timeline |-> {"event", "decision", "iteration", "person"},
         changelog |-> {"change", "feature", "component", "iteration",
                        "person"},
         requirement |-> {"requirement", "feature", "component", "iteration",
                          "person", "decision"},
         ontology |-> {"concept", "resource", "data"},
         knowledge_base |-> all]
  IN \A k \in 1..Len(graphs) :
       graphs[k].status # "archived" =>
         \A K \in all, name \in {"A", "B"} :
           (\A i \in 1..Len(graphs[k].nodes) : graphs[k].nodes[i].name # name) =>
             LET o == addNode(graphs[k].id, K, name, Undef, Undef, Undef,
                              NoFaults)
             IN /\ o.result = "ok" <=> K \in allowed[graphs[k].type]
                /\ o.result = "ok" =>
                     /\ Len(o.graphs[k].nodes) = Len(graphs[k].nodes) + 1
                     /\ o.graphs[k].nodes[Len(o.graphs[k].nodes)].type = K
                     /\ o.graphs[k].nodes[Len(o.graphs[k].nodes)].name = name
                /\ o.result # "ok" => o.graphs = graphs

\* a timeline graph that took an event node and rejects a component node
C4_Witness ==
  \E k \in 1..Len(graphs) :
    /\ graphs[k].type = "timeline"
    /\ graphs[k].status # "archived"
    /\ \E i \in 1..Len(graphs[k].nodes) : graphs[k].nodes[i].type = "event"
    /\ addNode(graphs[k].id, "component", "B", Undef, Undef, Undef,
               NoFaults).result = "TypeMismatch"

\* C5: in a non-archived graph of kind G holding both endpoints and no edge
\* with the same (source, target, kind), addEdge of kind E succeeds iff E is in
\* the edge allow-list of G; a rejected call reports TypeMismatch and leaves
\* the registry as it was.
C5_EdgeKindAllowList ==
  LET all == {"depends_on", "imports", "extends", "implements", "calls",
              "references", "contains", "associated_with", "precedes",
              "transforms_to", "leads_to", "implements_req", "created_by",
              "modified_by", "part_of"}
      allowed ==
        [topology |-> {"depends_on", "imports", "extends", "implements",
                       "calls", "references", "contains", "associated_with"},
         timeline |-> {"precedes", "leads_to", "created_by", "modified_by"},
         changelog |-> {"precedes", "transforms_to", "created_by",
                        "modified_by", "part_of"},
         requirement |-> {"implements_req", "depends_on", "part_of",
                          "created_by", "modified_by"},
         ontology |-> {"extends", "contains", "part_of", "associated_with"},
         knowledge_base |-> all]
  IN \A k \in 1..Len(graphs) :
       graphs[k].status # "archived" =>
         \A E \in all, s \in 1..Len(graphs[k].nodes),
            t \in 1..Len(graphs[k].nodes) :
           LET source == graphs[k].nodes[s].id
               target == graphs[k].nodes[t].id
               o == addEdge(graphs[k].id, E, source, target, Undef, Undef,
                            Undef, NoFaults)
           IN (\A i \in 1..Len(graphs[k].edges) :
                 ~ /\ graphs[k].edges[i].source = source
                   /\ graphs[k].edges[i].target = target
                   /\ graphs[k].edges[i].type = E) =>
                /\ o.result = "ok" <=> E \in allowed[graphs[k].type]
                /\ o.result = "ok" =>
                     /\ Len(o.graphs[k].edges) = Len(graphs[k].edges) + 1
                     /\ o.graphs[k].edges[Len(o.graphs[k].edges)].type = E
                /\ o.result # "ok" =>
                     o.result = "TypeMismatch" /\ o.graphs = graphs

\* a timeline graph that took a precedes edge and rejects a calls edge
C5_Witness ==
  \E k \in 1..Len(graphs) :
    /\ graphs[k].type = "timeline"
    /\ graphs[k].status # "archived"
    /\ \E i \in 1..Len(graphs[k].edges) :
         /\ graphs[k].edges[i].type = "precedes"
         /\ addEdge(graphs[k].id, "calls", graphs[k].edges[i].source,
                    graphs[k].edges[i].target, Undef, Undef, Undef,
                    NoFaults).result = "TypeMismatch"

\* C6: no dangling edges: the source and the target of every edge of a graph
\* are ids of nodes of that graph.
C6_NoDanglingEdges ==
  \A k \in 1..Len(graphs) :
    \A i \in 1..Len(graphs[k].edges) :
      /\ \E n \in 1..Len(graphs[k].nodes) :
           graphs[k].nodes[n].id = graphs[k].edges[i].source
      /\ \E n \in 1..Len(graphs[k].nodes) :
           graphs[k].nodes[n].id = graphs[k].edges[i].target

\* an edge between two nodes of a graph whose target is deleted: the edge goes
\* with it
C6_Witness ==
  \E k \in 1..Len(graphs) :
    /\ Len(graphs[k].nodes) = 2
    /\ Len(graphs[k].edges) = 1
    /\ graphs[k].edges[1].source = graphs[k].nodes[1].id
    /\ graphs[k].edges[1].target = graphs[k].nodes[2].id
    /\ LET o == deleteNode(graphs[k].id, graphs[k].nodes[2].id, NoFaults)
       IN o.result = "ok" /\ o.graphs[k].edges = <<>>

\* C7: no two edges of a graph share (source, target, kind); an addEdge that
\* repeats the triple of an existing edge fails with DuplicateRelationship and
\* changes nothing; a successful updateEdge keeps source, target and kind.
C7_EdgeTriplesUnique ==
  \A k \in 1..Len(graphs) :
    /\ \A i, j \in 1..Len(graphs[k].edges) :
         ( /\ graphs[k].edges[i].source = graphs[k].edges[j].source
           /\ graphs[k].edges[i].target = graphs[k].edges[j].target
           /\ graphs[k].edges[i].type = graphs[k].edges[j].type ) => i = j
    /\ \A i \in 1..Len(graphs[k].edges) :
         LET e == graphs[k].edges[i]
             o == addEdge(graphs[k].id, e.type, e.source, e.target, "l", Undef,
                          Undef, NoFaults)
         IN o.result = "DuplicateRelationship" /\ o.graphs = graphs
    /\ \A i \in 1..Len(graphs[k].edges), label \in {Undef, "l", "m"} :
         LET e == graphs[k].edges[i]
             o == updateEdge(graphs[k].id, e.id, label, Undef, Undef, NoFaults)
         IN /\ o.result = "ok"
            /\ Len(o.graphs[k].edges) = Len(graphs[k].edges)
            /\ o.graphs[k].edges[i].id = e.id
            /\ o.graphs[k].edges[i].source = e.source
            /\ o.graphs[k].edges[i].target = e.target
            /\ o.graphs[k].edges[i].type = e.type

\* two edges between the same nodes that differ in kind only, one of them
\* relabelled by updateEdge
C7_Witness ==
  \E k \in 1..Len(graphs) :
    \E i, j \in 1..Len(graphs[k].edges) :
      /\ i # j
      /\ graphs[k].edges[i].source = graphs[k].edges[j].source
      /\ graphs[k].edges[i].target = graphs[k].edges[j].target
      /\ graphs[k].edges[i].label = "l"

\* C8: node names are unique within a graph; addNode with a used name fails
\* with DuplicateName, and updateNode renaming a node to the name of another
\* node fails with DuplicateName; neither changes anything.
C8_NodeNamesUnique ==
  \A k \in 1..Len(graphs) :
    /\ \A i, j \in 1..Len(graphs[k].nodes) :
         graphs[k].nodes[i].name = graphs[k].nodes[j].name => i = j
    /\ \A i \in 1..Len(graphs[k].nodes) :
         LET o == addNode(graphs[k].id, "component", graphs[k].nodes[i].name,
                          Undef, Undef, Undef, NoFaults)
         IN o.result = "DuplicateName" /\ o.graphs = graphs
    /\ \A i, j \in 1..Len(graphs[k].nodes) :
         i # j =>
           LET o == updateNode(graphs[k].id, graphs[k].nodes[i].id,
                               graphs[k].nodes[j].name, "d", Undef, Undef,
                               NoFaults)
           IN o.result = "DuplicateName" /\ o.graphs = graphs

\* a graph with the nodes B and A, where renaming B to A is refused
C8_Witness ==
  \E k \in 1..Len(graphs) :
    /\ Len(graphs[k].nodes) = 2
    /\ graphs[k].nodes[1].name = "B"
    /\ graphs[k].nodes[2].name = "A"
    /\ updateNode(graphs[k].id, graphs[k].nodes[1].id, "A", Undef, Undef,
                  Undef, NoFaults).result = "DuplicateName"

\* C10: a successful deleteNode(graph, n) removes node n and exactly the
\* edges whose source or target is n; the other nodes and edges stay, in
\* their order, and every other graph is unchanged.
C10_DeleteNodeCascade ==
  \A k \in 1..Len(graphs) :
    \A d \in 1..Len(graphs[k].nodes) :
      LET g == graphs[k]
          n == g.nodes[d].id
          o == deleteNode(g.id, n, NoFaults)
          keptNodes == {i \in 1..Len(g.nodes) : i # d}
          keptEdges == {i \in 1..Len(g.edges) :
                          g.edges[i].source # n /\ g.edges[i].target # n}
          \* the position after the call of the element at position i
          Rank(kept, i) == Cardinality({j \in kept : j <= i})
      IN o.result = "ok" =>
           /\ Len(o.graphs) = Len(graphs)
           /\ \A m \in 1..Len(graphs) : m # k => o.graphs[m] = graphs[m]
           /\ o.graphs[k].id = g.id
           /\ Len(o.graphs[k].nodes) = Cardinality(keptNodes)
           /\ \A i \in keptNodes :
                o.graphs[k].nodes[Rank(keptNodes, i)] = g.nodes[i]
           /\ \A i \in 1..Len(o.graphs[k].nodes) : o.graphs[k].nodes[i].id # n
           /\ Len(o.graphs[k].edges) = Cardinality(keptEdges)
           /\ \A i \in keptEdges :
                o.graphs[k].edges[Rank(keptEdges, i)] = g.edges[i]
           /\ [o.graphs[k] EXCEPT !.nodes = g.nodes, !.edges = g.edges,
                                  !.updatedAt = g.updatedAt] = g

\* deleting the first of two nodes removes the edge that touches it and keeps
\* the loop on the other node
C10_Witness ==
  \E k \in 1..Len(graphs) :
    LET g == graphs[k] IN
    /\ Len(g.nodes) = 2
    /\ Len(g.edges) = 2
    /\ g.edges[1].source = g.nodes[1].id /\ g.edges[1].target = g.nodes[2].id
    /\ g.edges[2].source = g.nodes[2].id /\ g.edges[2].target = g.nodes[2].id
    /\ LET o == deleteNode(g.id, g.nodes[1].id, NoFaults)
       IN /\ o.result = "ok"
          /\ Len(o.graphs[k].nodes) = 1
          /\ o.graphs[k].edges = <<g.edges[2]>>

\* C11: deleteNode never deletes a resource: after a successful deleteNode
\* the resource list of the graph is what it was, no stored file is gone, and
\* the reference lists of the other nodes are what they were.
C11_DeleteNodeKeepsResources ==
  \A k \in 1..Len(graphs) :
    \A d \in 1..Len(graphs[k].nodes) :
      LET g == graphs[k]
          o == deleteNode(g.id, g.nodes[d].id, NoFaults)
      IN o.result = "ok" =>
           /\ o.graphs[k].resources = g.resources
           /\ disk.files \subseteq o.disk.files
           /\ \A m \in 1..Len(g.nodes) :
                m # d =>
                  \E j \in 1..Len(o.graphs[k].nodes) :
                    /\ o.graphs[k].nodes[j].id = g.nodes[m].id
                    /\ o.graphs[k].nodes[j].resources = g.nodes[m].resources

\* a node that references a resource of its graph is deleted and the
\* resource stays
C11_Witness ==
  \E k \in 1..Len(graphs) :
    \E d \in 1..Len(graphs[k].nodes) :
      /\ Len(graphs[k].nodes[d].resources) > 0
      /\ \E r \in 1..Len(graphs[k].resources) :
           graphs[k].resources[r].id = graphs[k].nodes[d].resources[1]
      /\ LET o == deleteNode(graphs[k].id, graphs[k].nodes[d].id, NoFaults)
         IN o.result = "ok" /\ Len(o.graphs[k].resources) > 0

\* C12: the root node of a graph cannot be deleted: deleteNode on the node
\* named by rootNodeId fails with ImmutableState and changes nothing, and a
\* set rootNodeId is the id of a node of the graph.
C12_RootNodeStays ==
  \A k \in 1..Len(graphs) :
    graphs[k].rootNodeId # NoId =>
      /\ \E n \in 1..Len(graphs[k].nodes) :
           graphs[k].nodes[n].id = graphs[k].rootNodeId
      /\ LET o == deleteNode(graphs[k].id, graphs[k].rootNodeId, NoFaults)
         IN o.result = "ImmutableState" /\ o.graphs = graphs /\ o.disk = disk

\* a graph whose root node has an edge to a second node: the second node
\* can be deleted, the root cannot
C12_Witness ==
  \E k \in 1..Len(graphs) :
    LET g == graphs[k] IN
    /\ g.rootNodeId # NoId
    /\ Len(g.nodes) = 2
    /\ \E e \in 1..Len(g.edges) : g.edges[e].source = g.rootNodeId
    /\ deleteNode(g.id, g.rootNodeId, NoFaults).result = "ImmutableState"
    /\ \E n \in 1..Len(g.nodes) :
         deleteNode(g.id, g.nodes[n].id, NoFaults).result = "ok"

\* C13: after a successful deleteResource(graph, r) no resource of the graph
\* has the id r and no node references r; the other resources and the other
\* references are what they were, in their order.
C13_DeleteResourcePurges ==
  \A k \in 1..Len(graphs) :
    \A x \in 1..Len(graphs[k].resources) :
      LET g == graphs[k]
          r == g.resources[x].id
          o == deleteResource(g.id, r, NoFaults)
      IN o.result = "ok" =>
           /\ \A i \in 1..Len(o.graphs[k].resources) :
                o.graphs[k].resources[i].id # r
           /\ o.graphs[k].resources = SelectSeq(g.resources, LAMBDA y : y.id # r)
           /\ Len(o.graphs[k].nodes) = Len(g.nodes)
           /\ \A n \in 1..Len(g.nodes) :
                /\ o.graphs[k].nodes[n].id = g.nodes[n].id
                /\ o.graphs[k].nodes[n].resources =
                     SelectSeq(g.nodes[n].resources, LAMBDA id : id # r)


\* C14: a successful deleteResource also removes the stored artifact of the
\* resource, whatever operation created the resource and whatever its type:
\* the file named by resource.path is no longer stored after the call.
C14_DeleteResourceRemovesArtifact ==
  \A k \in 1..Len(graphs) :
    \A x \in 1..Len(graphs[k].resources) :
      LET g == graphs[k]
          resource == g.resources[x]
          o == deleteResource(g.id, resource.id, NoFaults)
      IN (o.result = "ok" /\ resource.path \in disk.files)
           => resource.path \notin o.disk.files


C16_PublishGraph ==
  \A k \in 1..Len(graphs) :
    LET g == graphs[k]
        o == publishGraph(g.id, NoFaults)
        n == Len(g.resources)
    IN /\ g.status = "draft" =>
            /\ o.result = "ok"
            /\ o.graphs[k].status = "published"
            /\ o.graphs[k].publishedAt = now /\ o.graphs[k].publishedAt # NoDate
            /\ o.graphs[k].nodes = g.nodes
            /\ o.graphs[k].edges = g.edges
            /\ IF config.generateSvg /\ config.fileService
               THEN /\ Len(o.graphs[k].resources) = n + 1
                    /\ SubSeq(o.graphs[k].resources, 1, n) = g.resources
                    /\ o.graphs[k].resources[n + 1].type = "svg"
                    /\ \A m \in 1..Len(o.graphs[k].nodes) :
                         \A x \in 1..Len(o.graphs[k].nodes[m].resources) :
                           o.graphs[k].nodes[m].resources[x]
                             # o.graphs[k].resources[n + 1].id
               ELSE o.graphs[k].resources = g.resources
       /\ g.status = "archived" =>
            /\ o.result = "ImmutableState"
            /\ o.graphs = graphs
            /\ o.disk = disk

\* a graph published from a draft: it carries the date, its node, and the
\* generated svg resource, whose file is stored
C16_Witness ==
  \E k \in 1..Len(graphs) :
    /\ graphs[k].status = "published"
    /\ graphs[k].publishedAt # NoDate
    /\ Len(graphs[k].nodes) = 1
    /\ Len(graphs[k].nodes[1].resources) = 1
    /\ Len(graphs[k].resources) = 2
    /\ graphs[k].resources[2].type = "svg"
    /\ graphs[k].resources[2].name = PublishedName(graphs[k].name)
    /\ graphs[k].resources[2].path \in disk.files

C19_NoPartialApplication ==
  LET kinds == {"NotFound", "TypeMismatch", "DuplicateName",
                "DuplicateRelationship", "ImmutableState", "InvalidInput"}
      before == {graphs, EnsureInitialized(NoFaults)}
      Kept(o) == o.result \in kinds => o.graphs \in before
      f == NoFaults
  IN /\ \A name \in {"", "Sys"}, type \in {Undef, "timeline", "mindmap"} :
          Kept(createGraph(name, type, Undef, f))
     /\ \A id \in GraphIdArgs :
          /\ Kept(getGraph(id, f))
          /\ Kept(updateGraph(id, "Kb", Undef, f))
          /\ Kept(publishGraph(id, f))
          /\ Kept(archiveGraph(id, f))
          /\ Kept(deleteGraph(id, f))
          /\ Kept(importFromComponentAnalysis(id, f))
          /\ \A validSvg \in BOOLEAN : Kept(updateGraphSvg(id, validSvg, f))
          /\ \A type \in {"component", "event", "widget"}, name \in {"A", "B"} :
               Kept(addNode(id, type, name, Undef, Undef, Undef, f))
          /\ \A name \in {"R", "S"} : Kept(addResource(id, name, "md", Undef, f))
          /\ \A nodeId \in NodeIdArgs :
               /\ \A name \in {Undef, "A", "B"} :
                    Kept(updateNode(id, nodeId, name, Undef, Undef, Undef, f))
               /\ Kept(deleteNode(id, nodeId, f))
               /\ \A type \in {"depends_on", "precedes", "knows"},
                     target \in NodeIdArgs :
                    Kept(addEdge(id, type, nodeId, target, Undef, Undef, Undef, f))
               /\ \A validSvg \in BOOLEAN :
                    Kept(saveSvgToNode(id, nodeId, "R", "", validSvg, f))
               /\ \A resourceId \in ResourceIdArgs :
                    /\ Kept(linkResourceToNode(id, nodeId, resourceId, f))
                    /\ Kept(unlinkResourceFromNode(id, nodeId, resourceId, f))
          /\ \A nodeId \in NodeIdArgs \cup {NoId} :
               Kept(saveMdToGraph(id, nodeId, "R", "", f))
          /\ \A edgeId \in EdgeIdArgs :
               /\ Kept(updateEdge(id, edgeId, "l", Undef, Undef, f))
               /\ Kept(deleteEdge(id, edgeId, f))
          /\ \A resourceId \in ResourceIdArgs :
               /\ Kept(updateResource(id, resourceId, "S", Undef, Undef, f))
               /\ Kept(deleteResource(id, resourceId, f))
          /\ LET o == publishGraph(id, [NoFaults EXCEPT !.artifact = FALSE])
             IN o.result # "ok" => o.graphs \in before

\* C20: when the write of the snapshot fails during a mutating call, the
\* call reports the failure and the change stays in memory: an addNode whose
\* write fails throws, the registry holds the new node and the snapshot is
\* the old one; a later getGraph in the same process returns the registry as
\* it is in memory, with the node.
C20_FailedWriteKeepsChange ==
  \A k \in 1..Len(graphs) :
    /\ LET o == getGraph(graphs[k].id, NoFaults)
       IN o.result = "ok" /\ o.graphs = graphs
    /\ graphs[k].status # "archived" =>
         \A name \in {"A", "B"} :
           LET g == graphs[k]
               o0 == addNode(g.id, "component", name, Undef, Undef, Undef,
                             NoFaults)
               o == addNode(g.id, "component", name, Undef, Undef, Undef,
                            [NoFaults EXCEPT !.write = "fail"])
           IN (Persists /\ o0.result = "ok") =>
                /\ o.result = "PersistenceFailure"
                /\ o.graphs = o0.graphs
                /\ Len(o.graphs[k].nodes) = Len(g.nodes) + 1
                /\ o.graphs[k].nodes[Len(g.nodes) + 1].name = name
                /\ o.disk = disk

\* after an addNode whose write failed: the node is in the registry, not in
\* the snapshot, and getGraph shows it
C20_Witness ==
  \E k \in 1..Len(graphs) :
    /\ ioFailures > 0
    /\ Len(graphs[k].nodes) = 1
    /\ disk.hasGraphs
    /\ \A j \in 1..Len(disk.graphs) : disk.graphs[j].nodes = <<>>
    /\ LET o == getGraph(graphs[k].id, NoFaults)
       IN o.result = "ok" /\ Len(o.graphs[k].nodes) = 1

\* C21: deletion is permanent within a run: once deleteGraph has removed a
\* graph from the registry, no graph with that id is in the registry in any
\* later state.  The ids are the values of randomUUID(), handed out once
\* each, and only deleteGraph takes a graph out of a registry that holds
\* one: an id that was handed out and names no graph of the registry can
\* name none after the next call either.
C21_DeletionIsPermanent ==
  [][\A id \in 1..(nextId - 1) :
       (\A k \in 1..Len(graphs) : graphs[k].id # id) =>
         (\A j \in 1..Len(graphs') : graphs'[j].id # id)]_vars

C23_SnapshotFollowsRegistry ==
  [][(/\ Persists
      /\ inFlight' = {}
      /\ inFlight # {} \/ disk'.graphs # disk.graphs) =>
       disk'.graphs = Stringify(graphs')]_vars

\* C24: a failure to read or parse the snapshot is raised as a
\* PersistenceFailure to the caller of the call that triggered the load; the
\* store does not swallow it and go on with an empty registry that a later
\* mutation writes over the snapshot.
C24_LoadFailureIsRaised ==
  (config.fileService /\ (~initialized \/ Len(graphs) = 0) /\ disk.hasGraphs) =>
    LET f == [NoFaults EXCEPT !.load = FALSE]
    IN /\ \A id \in GraphIdArgs :
            getGraph(id, f).result = "PersistenceFailure"
       /\ LET o == createGraph("Sys", Undef, Undef, f)
          IN o.result = "PersistenceFailure" /\ o.disk = disk

\* C25: a published graph can still be modified: on a published graph
\* addNode, updateNode, deleteNode, addEdge, updateEdge and deleteEdge succeed
\* under exactly the preconditions under which they succeed on a draft graph,
\* and the status stays published.
C25_PublishedIsMutable ==
  \A k \in 1..Len(graphs) :
    graphs[k].status \in {"draft", "published"} =>
      LET g == graphs[k]
          HasNode(id) == \E n \in 1..Len(g.nodes) : g.nodes[n].id = id
          HasEdge(id) == \E e \in 1..Len(g.edges) : g.edges[e].id = id
          Named(name, except) ==
            \E n \in 1..Len(g.nodes) :
              g.nodes[n].name = name /\ g.nodes[n].id # except
          Stays(o, pre) ==
            /\ o.result = "ok" <=> pre
            /\ o.result = "ok" => o.graphs[k].status = g.status
      IN /\ \A type \in {"component", "event"}, name \in {"A", "B"} :
              Stays(addNode(g.id, type, name, Undef, Undef, Undef, NoFaults),
                    NodeTypeAllowed(g.type, type) /\ ~Named(name, NoId))
         /\ \A nodeId \in NodeIdArgs :
              /\ \A name \in {Undef, "A", "B"} :
                   Stays(updateNode(g.id, nodeId, name, Undef, Undef, Undef,
                                    NoFaults),
                         HasNode(nodeId) /\ (name = Undef \/ ~Named(name, nodeId)))
              /\ Stays(deleteNode(g.id, nodeId, NoFaults),
                       HasNode(nodeId) /\ g.rootNodeId # nodeId)
              /\ \A type \in {"depends_on", "precedes"}, target \in NodeIdArgs :
                   Stays(addEdge(g.id, type, nodeId, target, Undef, Undef, Undef,
                                 NoFaults),
                         /\ EdgeTypeAllowed(g.type, type)
                         /\ HasNode(nodeId) /\ HasNode(target)
                         /\ ~\E e \in 1..Len(g.edges) :
                               /\ g.edges[e].source = nodeId
                               /\ g.edges[e].target = target
                               /\ g.edges[e].type = type)
         /\ \A edgeId \in EdgeIdArgs :
              /\ Stays(updateEdge(g.id, edgeId, "l", Undef, Undef, NoFaults),
                       HasEdge(edgeId))
              /\ Stays(deleteEdge(g.id, edgeId, NoFaults), HasEdge(edgeId))

\* a published graph that holds a node and an edge added after it was
\* published, and takes another node
C25_Witness ==
  \E k \in 1..Len(graphs) :
    /\ graphs[k].status = "published"
    /\ Len(graphs[k].nodes) = 1 /\ Len(graphs[k].edges) = 1
    /\ graphs[k].nodes[1].createdAt > graphs[k].publishedAt
    /\ graphs[k].edges[1].createdAt > graphs[k].publishedAt
    /\ addNode(graphs[k].id, "component", "B", Undef, Undef, Undef,
               NoFaults).result = "ok"
\* C26: a delete_node, delete_edge or delete_resource call whose
\* confirmDelete is false or missing answers with a failure and leaves the
\* registry, graph.json and the stored artifacts as they were, whatever the
\* graph, node, edge or resource it names and whether or not a write of
\* graph.json would have failed.
C26_UnconfirmedDeleteIsRefused ==
  \A id \in GraphIdArgs, f \in WriteFaults :
    LET Refused(t) ==
          /\ t.response.success = FALSE
          /\ t.response.error # Undef
          /\ t.o.graphs = graphs
          /\ t.o.disk = disk
          /\ t.o.ids = 0
        Unconfirmed(parameters) ==
          ConfirmArgs(parameters) \ {parameters @@ [confirmDelete |-> TRUE]}
    IN /\ \A nodeId \in NodeIdArgs :
            \A p \in Unconfirmed([graphId |-> id, nodeId |-> nodeId]) :
              Refused(CallTool("delete_node", TRUE, p, f, TRUE))
       /\ \A edgeId \in EdgeIdArgs :
            \A p \in Unconfirmed([graphId |-> id, edgeId |-> edgeId]) :
              Refused(CallTool("delete_edge", TRUE, p, f, TRUE))
       /\ \A resourceId \in ResourceIdArgs :
            \A p \in Unconfirmed([graphId |-> id, resourceId |-> resourceId]) :
              Refused(CallTool("delete_resource", TRUE, p, f, TRUE))

\* a graph with a node, an edge and a resource with a stored artifact, each
\* of which the confirmed call would delete
C26_Witness ==
  /\ Len(graphs) = 1
  /\ disk.files # {}
  /\ LET g == graphs[1]
     IN /\ Len(g.nodes) = 1 /\ Len(g.edges) = 1 /\ Len(g.resources) = 1
        /\ LET Confirmed(key, value) ==
                 [graphId |-> g.id, confirmDelete |-> TRUE] @@ (key :> value)
           IN /\ CallTool("delete_edge", TRUE, Confirmed("edgeId", g.edges[1].id),
                          NoFaults, TRUE).o.graphs # graphs
              /\ CallTool("delete_resource", TRUE,
                          Confirmed("resourceId", g.resources[1].id),
                          NoFaults, TRUE).o.graphs # graphs
              /\ CallTool("delete_node", TRUE, Confirmed("nodeId", g.nodes[1].id),
                          NoFaults, TRUE).o.graphs # graphs

\* C27: every tool call that fails (an unknown tool, arguments that are not
\* an object, a missing graph, a kind the graph does not allow, a failed
\* write) is answered with a result whose success is false and that carries
\* a message and the kind of the error: what the result holds besides the
\* text of the message tells the kinds apart.  No failure leaves the handler
\* as an exception.
C27_FailureCarriesKind ==
  LET Requests ==
        {CallTool("add_node", TRUE,
                  [graphId |-> id, type |-> type, name |-> "Z"], f, TRUE) :
           id \in GraphIdArgs, type \in {"component", "event"}, f \in WriteFaults}
          \cup {CallTool("no_such_tool", isObject, [graphId |-> MissingId], NoFaults, mdDir) :
                  isObject \in BOOLEAN, mdDir \in BOOLEAN}
      Failed == {t \in Requests : t.o.result # "ok"}
      Detail(response) ==
        [key \in DOMAIN response \ {"error"} |-> response[key]]
  IN /\ \A t \in Failed :
          /\ "rejected" \notin DOMAIN t.response
          /\ t.response.success = FALSE
          /\ t.response.error # Undef
     /\ \A t1 \in Failed, t2 \in Failed :
          Detail(t1.response) = Detail(t2.response) => t1.o.result = t2.o.result

\* C28: every tool call that ends in a failure result appends an entry to
\* md/error_log.txt (the directory md existing).
C28_FailuresAreLogged ==
  \A id \in GraphIdArgs, type \in {"component", "event"}, f \in WriteFaults :
    LET t == CallTool("add_node", TRUE,
                      [graphId |-> id, type |-> type, name |-> "Z"], f, TRUE)
    IN t.response.success = FALSE => t.logged > 0

\* the reference lists of the nodes of every graph of a registry
References(gs) ==
  [k \in 1..Len(gs) |->
     [j \in 1..Len(gs[k].nodes) |-> gs[k].nodes[j].resources]]

C30_UnlinkCanBeUndone ==
  [][\A graphId \in GraphIdArgs, nodeId \in NodeIdArgs, resourceId \in ResourceIdArgs :
       LET gs == EnsureInitialized(NoFaults)
           o == unlinkResourceFromNode(graphId, nodeId, resourceId, NoFaults)
           i == GraphIndex(gs, graphId)
           n == FindIndex(gs[i].nodes, LAMBDA node : node.id = nodeId)
       IN (o.result = "ok" /\ graphs' = o.graphs /\ disk' = o.disk) =>
            /\ \E k \in 1..Len(graphs'[i].resources) :
                  graphs'[i].resources[k].id = resourceId
            /\ graphs'[i].resources = gs[i].resources
            /\ \A m \in 1..Len(gs[i].nodes) :
                  m # n => graphs'[i].nodes[m].resources = gs[i].nodes[m].resources
            /\ LET again == linkResourceToNode(graphId, nodeId, resourceId, NoFaults)'
                   list == again.graphs[i].nodes[n].resources
               IN /\ again.result = "ok"
                  /\ Cardinality({k \in 1..Len(list) : list[k] = resourceId}) = 1
    ]_vars

\* after an unlink: two nodes, the first without references, the second
\* still referencing the resource of the graph, which was linked to the
\* first one earlier (its updatedAt is later than its createdAt)
C30_Witness ==
  /\ Len(graphs) = 1
  /\ Len(graphs[1].nodes) = 2
  /\ Len(graphs[1].resources) > 0
  /\ graphs[1].nodes[1].resources = <<>>
  /\ graphs[1].nodes[1].updatedAt > graphs[1].nodes[1].createdAt
  /\ graphs[1].nodes[2].resources = <<graphs[1].resources[1].id>>
  /\ linkResourceToNode(graphs[1].id, graphs[1].nodes[1].id,
                        graphs[1].resources[1].id, NoFaults).result = "ok"

\* C31: list_graphs returns, in the order of the registry, exactly the graphs
\* whose status is the status asked for and whose kind is the kind asked for
\* (every graph when a filter is absent); each entry holds the nodes of its
\* graph reduced to id, name and type, and nodesCount and edgesCount are the
\* numbers of nodes and edges the graph has.
C31_ListGraphs ==
  \A status \in GraphStatus \cup {Undef}, type \in {"topology", "timeline", Undef} :
    LET data == ToolListGraphs([status |-> status, type |-> type])
        Matches(g) == /\ status # Undef => g.status = status
                      /\ type # Undef => g.type = type
        match == {k \in 1..Len(graphs) : Matches(graphs[k])}
        Index(j) == CHOOSE k \in match :
                      Cardinality({m \in match : m < k}) = j - 1
    IN /\ Len(data) = Cardinality(match)
       /\ \A j \in 1..Len(data) :
            LET g == graphs[Index(j)]
            IN /\ data[j].id = g.id
               /\ data[j].status = g.status
               /\ data[j].type = g.type
               /\ data[j].nodesCount = Len(g.nodes)
               /\ data[j].edgesCount = Len(g.edges)
               /\ Len(data[j].nodes) = Len(g.nodes)
               /\ \A n \in 1..Len(g.nodes) :
                    data[j].nodes[n] = [id |-> g.nodes[n].id,
                                        name |-> g.nodes[n].name,
                                        type |-> g.nodes[n].type]

\* a draft timeline graph before a published topology graph that is left
\* with one node and one edge after a deletion (an id between the one of the
\* graph and the one of the node was given away): each filter selects one
\* of the two graphs
C31_Witness ==
  /\ Len(graphs) = 2
  /\ graphs[1].type = "timeline" /\ graphs[1].status = "draft"
  /\ graphs[2].type = "topology" /\ graphs[2].status = "published"
  /\ Len(graphs[2].nodes) = 1 /\ Len(graphs[2].edges) = 1
  /\ graphs[2].nodes[1].id > graphs[2].id + 1
  /\ ToolListGraphs([status |-> "published", type |-> Undef])[1].nodesCount = 1
  /\ ToolListGraphs([status |-> Undef, type |-> "timeline"])[1].nodesCount = 0
  /\ Len(ToolListGraphs([status |-> Undef, type |-> Undef])) = 2

\* C32: getNodeDetails(graph, n) fails with NotFound when the graph or the
\* node does not exist; otherwise it returns n, as incoming the edges of the
\* graph whose target is n, as outgoing those whose source is n, and as
\* resources exactly the resources of the graph whose ids are in the
\* reference list of n, in the order of that list.
C32_NodeDetails ==
  \A graphId \in GraphIdArgs, nodeId \in NodeIdArgs :
    LET gs == EnsureInitialized(NoFaults)
        i == GraphIndex(gs, graphId)
        n == IF i = 0 THEN 0
             ELSE FindIndex(gs[i].nodes, LAMBDA node : node.id = nodeId)
        result == getNodeDetails(graphId, nodeId, NoFaults).result
    IN /\ (i = 0 \/ n = 0) <=> result = "NotFound"
       /\ (i # 0 /\ n # 0) =>
            LET g == gs[i]
                d == NodeDetails(g, g.nodes[n])
                listed == {r \in Range(g.nodes[n].resources) :
                             \E k \in 1..Len(g.resources) : g.resources[k].id = r}
            IN /\ result = "ok"
               /\ d.node = g.nodes[n]
               /\ Range(d.incomingEdges) = {e \in Range(g.edges) : e.target = nodeId}
               /\ Range(d.outgoingEdges) = {e \in Range(g.edges) : e.source = nodeId}
               /\ {k \in 1..Len(g.resources) : g.resources[k].id \in listed}
                    = {k \in 1..Len(g.resources) :
                         \E j \in 1..Len(d.resources) : d.resources[j] = g.resources[k]}
               /\ [k \in 1..Len(d.resources) |-> d.resources[k].id]
                    = SelectSeq(g.nodes[n].resources, LAMBDA r : r \in listed)

\* the layout of graph i with the settings of the service
LayoutOf(i) ==
  calculateNodePositions(graphs[i].nodes, graphs[i].edges, config.svgSettings)

C39_OnCanvas ==
  \A i \in DOMAIN graphs :
    \A positions \in {LayoutOf(i)} :
      \A k \in DOMAIN positions :
        /\ 100 * config.svgSettings.nodeRadius <= positions[k].x
        /\ positions[k].x
             <= 100 * (config.svgSettings.width - config.svgSettings.nodeRadius)
        /\ 100 * config.svgSettings.nodeRadius <= positions[k].y
        /\ positions[k].y
             <= 100 * (config.svgSettings.height - config.svgSettings.nodeRadius)

\* C40: the layout of a single node is its position on the initial circle,
\* x = width / 2 + 0.4 * min(width, height) and y = height / 2, for every
\* configured width, height and node radius; the layout of no node is the
\* empty map.
C40_SingleNode ==
  \A i \in DOMAIN graphs :
    LET width == config.svgSettings.width
        height == config.svgSettings.height
    IN /\ Len(graphs[i].nodes) = 0 => LayoutOf(i) = <<>>
       /\ Len(graphs[i].nodes) = 1 =>
            LayoutOf(i) =
              <<[x |-> 50 * width
                         + 40 * (IF width < height THEN width ELSE height),
                 y |-> 50 * height]>>

\* C34: a graph whose createGraph returned successfully stays in the
\* registry until deleteGraph removes it, under every interleaving of calls:
\* no step other than a deleteGraph of that graph takes a graph out of the
\* registry, in particular not the reload of a call that started while the
\* registry was empty.
C34_StaysUntilDeleted ==
  [][\A i \in DOMAIN graphs :
       \/ GraphIndex(graphs', graphs[i].id) # 0
       \/ Call(deleteGraph(graphs[i].id, NoFaults),
               deleteGraph(graphs[i].id, NoFaults))
       \/ Restart]_vars

\* the path recorded by the call with outcome o in the last resource of
\* graph id
LastPath(o, id) ==
  LET g == o.graphs[GraphIndex(o.graphs, id)]
  IN g.resources[Len(g.resources)].path

\* the path recorded by updateGraphSvg in the SVG resource of graph id
SvgPath(o, id) ==
  LET g == o.graphs[GraphIndex(o.graphs, id)]
  IN g.resources[FindIndex(g.resources, LAMBDA r :
                   r.type = "svg" /\ PathIncludesGraph(r.path, id))].path

\* the file at `path` holds `content` after the call with outcome o
Holds(o, path, content) ==
  /\ path \in o.disk.files
  /\ \A entry \in o.disk.content : entry.path = path => entry.content = content

\* C35: after a successful save of an SVG or Markdown artifact (updateGraphSvg,
\* saveSvgToNode, saveMdToGraph, the SVG of publishGraph) the file at the
\* recorded path holds exactly the content supplied, also when an earlier
\* save produced the same file name (same title and owner within the same
\* clock minute).
C35_ArtifactContent ==
  \A id \in GraphIdArgs :
    /\ \A svgContent \in {"<svg>a", "<svg>b"} :
         \A o \in {Saved(updateGraphSvg(id, TRUE, NoFaults), svgContent)} :
           o.result = "ok" => Holds(o, SvgPath(o, id), svgContent)
    /\ \A nodeId \in NodeIdArgs, svgContent \in {"<svg>a", "<svg>b"} :
         \A o \in {Saved(saveSvgToNode(id, nodeId, "R", "", TRUE, NoFaults),
                         svgContent)} :
           o.result = "ok" => Holds(o, LastPath(o, id), svgContent)
    /\ \A nodeId \in NodeIdArgs \cup {NoId}, content \in {"a", "b"} :
         \A o \in {Saved(saveMdToGraph(id, nodeId, "R", "", NoFaults), content)} :
           o.result = "ok" => Holds(o, LastPath(o, id), content)
    /\ \A g \in KnownGraphs :
         g.id = id =>
           \A o \in {Saved(publishGraph(id, NoFaults), GeneratedSvg(g))} :
             o.result = "ok" => Holds(o, LastPath(o, id), GeneratedSvg(g))

\* C36: in every reachable state the resources of a graph have different
\* ids, also the resources created by saveMdToGraph, saveSvgToNode and
\* updateGraphSvg, whose ids come from the millisecond clock, and also when
\* two of these saves happen at the same value of the clock.
C36_ResourceIdsUnique ==
  \A k \in 1..Len(graphs) :
    \A i, j \in 1..Len(graphs[k].resources) :
      graphs[k].resources[i].id = graphs[k].resources[j].id => i = j

\* C38: no dangling resource references: in every state reached by
\* addResource, linkResourceToNode, unlinkResourceFromNode, saveMdToGraph,
\* saveSvgToNode, updateGraphSvg, deleteResource and deleteNode, every id in
\* the reference list of a node is the id of a resource of the same graph.
C38_NoDanglingReferences ==
  \A k \in 1..Len(graphs) :
    \A n \in 1..Len(graphs[k].nodes) :
      \A x \in 1..Len(graphs[k].nodes[n].resources) :
        \E i \in 1..Len(graphs[k].resources) :
          graphs[k].resources[i].id = graphs[k].nodes[n].resources[x]

\* a node that still references a resource made by a save after another
\* resource it referenced, made by addResource, was deleted: the resource of
\* addResource took the id after the node's and is in no list any more
C38_Witness ==
  \E k \in 1..Len(graphs) :
    \E n \in 1..Len(graphs[k].nodes) :
      /\ graphs[k].nodes[n].resources # <<>>
      /\ \A x \in 1..Len(graphs[k].nodes[n].resources) :
           graphs[k].nodes[n].resources[x] >= ResIdBase
      /\ nextId > graphs[k].nodes[n].id + 1
      /\ \A i \in 1..Len(graphs[k].resources) :
           graphs[k].resources[i].id >= ResIdBase
      /\ wasArchived = {}

\* the ids of the nodes named `name` that calls of addNode have appended to
\* graph id: in the registry, in graph.json or in a write in flight (no
\* operation of SpecAddNode removes or renames a node)
NodesNamed(id, name) ==
  LET In(gs) == UNION {{n.id : n \in {m \in Range(g.nodes) : m.name = name}} :
                        g \in {h \in Range(gs) : h.id = id}}
  IN In(graphs) \cup In(disk.graphs)
       \cup UNION {In(e.data) : e \in {c \in inFlight : c.at = "write"}}

\* C37: when calls of addNode on one graph overlap, interleaved at their
\* awaits (initialisation, graph lookup, persistence), at most one call with
\* a given name succeeds, and no reachable state has two nodes of one graph
\* with the same name.
C37_OneNodePerName ==
  /\ \A k \in 1..Len(graphs) :
       \A i, j \in 1..Len(graphs[k].nodes) :
         graphs[k].nodes[i].name = graphs[k].nodes[j].name => i = j
  /\ \A id \in GraphIdArgs, name \in {"A", "B"} :
       Cardinality(NodesNamed(id, name)) <= 1

====
